---- MODULE Spec2Model ----
(***************************************************************************)
(* The VisaUsbInstrument class of labchat/visausb.py: the open/close       *)
(* state of the transport, the write/read/query primitives, and the        *)
(* positive-feedback routine _set_with_check, stepped line by line.        *)
(*                                                                         *)
(* Time is counted in ticks of 25 ms.  Strings are sequences of one-       *)
(* character strings; "LF" stands for the newline that ends a device       *)
(* reply.  A Python value is a record [t, s, m, e]: a string (t = "str",   *)
(* characters s), a float (t = "num", value m * 10^e with m carrying no    *)
(* trailing zero while e < 0) or a raised ValueError (t = "err").          *)
(***************************************************************************)
EXTENDS Integers, Sequences, FiniteSets, TLC

VARIABLES
    is_open,      \* self.is_open
    device,       \* self.device: "None" or "handle"
    pc,           \* position of the caller / of _set_with_check
    op,           \* the method the caller invoked last
    ret,          \* value returned by the method: "none", "True", "False"
    exc,          \* exception that reached the caller: "none", "IOError", ...
    now,          \* time(), in ticks since the call began
    t0,           \* t0 of _set_with_check
    transform,    \* argument transform: "None" or "float"
    result,       \* argument result (the expected value)
    timeout,      \* argument timeout, in ticks
    out,          \* local variable out
    qn,           \* which self.query of the cycle is running: 1 or 2
    cycles,       \* iterations of the while loop entered
    cmdWrites,    \* calls of self.write(command)
    queryWrites,  \* calls of self.write(query)
    loopSleeps,   \* executions of the inter-loop sleep of line 260
    devWrites,    \* calls of self.device.write
    devReads,     \* calls of self.device.read
    cyc,          \* self.write calls of the current cycle, in order
    resp,         \* responses self.query returned in the current cycle
    resp1,        \* first response of the first cycle (<<"-">> before it)
    allEmpty,     \* every response of the call so far was the empty string
    matched,      \* some response of the call, transformed, equalled result
    timeChecks,   \* evaluations of the timeout test of line 257
    allMatch,     \* every response of the call so far, transformed, equalled result
    rdTimeouts,   \* VisaIOErrors of the running self.read
    rdReads,      \* self.device.read calls of the running self.read
    raw,          \* what the last self.device.read returned (<<"-">>: nothing)
    devFault,     \* "none", or where the device last raised VisaIOError
    lastCheck     \* time of the last timeout check that let the loop go on

vars == <<is_open, device, pc, op, ret, exc, now, t0, transform, result,
          timeout, out, qn, cycles, cmdWrites, queryWrites, loopSleeps,
          devWrites, devReads, cyc, resp, resp1, allEmpty, matched,
          timeChecks, rdTimeouts, devFault, lastCheck, allMatch, rdReads,
          raw>>

VARIABLES
    prevCall      \* what the caller kept of the _set_with_check call before

\* AFG2225 (gwinstek.py), a VisaUsbInstrument
VARIABLES
    afg_param,    \* the parameter the running setter sets ("none": no setter)
    afg_req,      \* the value the setter was called with
    afg_value,    \* the setter's local frequency / amplitude / ... / wavetype
    afg_min,      \* min_amp, min_freq, ...
    afg_max,      \* max_amp, max_freq, ...
    in_range,     \* in_range
    afg_result,   \* result handed to _set_with_check
    afg_cmds,     \* values carried by the command writes of the setter
    afg_cycles,   \* cycles of the setter's _set_with_check
    afg_out,      \* what _set_with_check returned: "none", "True", "False"
    sw_args,      \* arguments of set_wave: parameter -> value or None
    sw_pos,       \* how many parameters set_wave has gone through
    it_worked,    \* it_worked of set_wave
    sw_attempted, \* parameters whose setter set_wave has called, in order
    sw_anyFalse   \* some setter called by set_wave returned False

afgVars == <<afg_param, afg_req, afg_value, afg_min, afg_max, in_range,
             afg_result, afg_cmds, afg_cycles, afg_out, sw_args, sw_pos,
             it_worked, sw_attempted, sw_anyFalse>>
setterVars == <<afg_param, afg_req, afg_value, afg_min, afg_max, in_range,
                afg_result, afg_cmds, afg_cycles, afg_out>>
waveVars == <<sw_args, sw_pos, it_worked, sw_attempted, sw_anyFalse>>

\* Scope (tekscope.py)
VARIABLES
    scope_is_open, \* Scope.is_open
    device_type,   \* Scope.device_type: "None", "TDS", "DPO"
    measure_type,  \* Scope.measure_type: None or [channel, [types], out]
    sc_stack,      \* where the running methods return to, innermost first
    smt_ch,        \* set_measure_type: ch_int
    smt_meas,      \* set_measure_type: measurement
    smt_writes,    \* self.write calls of the running set_measure_type
    smt_recorded,  \* channel and measurement were the recorded ones on entry
    m_cnt,         \* measure: cnt
    m_queries,     \* measure: value queries sent
    m_data,        \* measure: data
    m_value,       \* measure: value returned
    m_gave_up,     \* measure: the ValueError of line 507 was raised
    as_ch,         \* autoscale_y: ch_int
    is_good,       \* autoscale_y: is_good
    as_cnt,        \* autoscale_y: cnt
    wfmin,         \* autoscale_y: wfmin
    wfmax,         \* autoscale_y: wfmax
    scscale,       \* autoscale_y: scscale
    scpos,         \* autoscale_y: scpos
    as_iters,      \* autoscale_y: iterations of the while loop begun
    it_writes      \* autoscale_y: SCALE and POSITION writes of the iteration

scopeObj == <<scope_is_open, device_type, measure_type>>
smtVars == <<smt_ch, smt_meas, smt_writes, smt_recorded>>
measVars == <<m_cnt, m_queries, m_data, m_value, m_gave_up>>
autoVars == <<as_ch, is_good, as_cnt, wfmin, wfmax, scscale, scpos, as_iters,
              it_writes>>
scopeVars == <<scopeObj, sc_stack, smtVars, measVars, autoVars>>

\* OphirCOM (ophirpower.py)
VARIABLES
    USBI_handle,         \* OphirCOM.USBI_handle: 0 while not connected
    measurement_running, \* OphirCOM.measurement_running
    stream_on,           \* the power meter is streaming
    last_stream,         \* the last call of StartStream / StopStream made by
                         \* start_data_stream / stop_data_stream
    stream_alt,          \* those calls have alternated so far
    gd_n,                \* get_data_fixed: num_samples
    gd_time,             \* get_data_fixed: time_length
    pows,                \* get_data_fixed: pows
    times,               \* get_data_fixed: times, in ms
    polls,               \* GetData calls of the running get_data_fixed
    dev_n,               \* samples the meter has handed out since StartStream
    ret_pows,            \* the powers returned
    ret_times            \* the timestamps returned, in s

streamLog == <<last_stream, stream_alt>>
ophirObj == <<USBI_handle, measurement_running, stream_on, streamLog>>
gdVars == <<gd_n, gd_time, pows, times, polls, dev_n, ret_pows, ret_times>>
ophirVars == <<ophirObj, gdVars>>

\* DewMaster (edgetech.py): the hygrometer and a running log_data
VARIABLES
    out_interval,        \* the output interval the DewMaster was set to
    lg_total,            \* argument total, counted in intervals, or None
    lg_npy,              \* argument npy
    lg_csv,              \* argument csv
    tries,               \* the local tries of log_data
    data,                \* number of parsed data lines in the local data
    npy_rows,            \* data lines in the .npy file
    csv_rows,            \* data lines in the .csv file
    lg_phase,            \* "none", or the loop log_data has reached:
                         \* "first" or "collect"
    lg_t,                \* intervals spent in the collection loop
    empty_run            \* collection intervals without a data line since
                         \* the last one with data

dewArgs == <<lg_total, lg_npy, lg_csv>>
dewFiles == <<npy_rows, csv_rows>>
dewVars == <<out_interval, dewArgs, tries, data, dewFiles, lg_phase, lg_t,
            empty_run>>

\* the variables of the other drivers
drvVars == <<afgVars, scopeVars, ophirVars, dewVars>>

\* what the caller of the VisaUsbInstrument keeps count of
VARIABLES
    okLog,        \* the last of open / close that returned without exception
    devFlushes    \* self.device.flush calls of the call in progress

logVars == <<okLog, devFlushes>>
callerVars == <<prevCall, logVars>>

\* the variables of the other drivers and of the caller's memory
extVars == <<callerVars, drvVars>>

allVars == <<vars, extVars>>

objVars  == <<is_open, device>>
argVars  == <<transform, result, timeout>>
histVars == <<resp, resp1, allEmpty, matched, allMatch>>
rdVars   == <<rdTimeouts, rdReads, raw>>
cntVars  == <<cycles, cmdWrites, queryWrites, loopSleeps, devWrites, devReads>>

-----------------------------------------------------------------------------
(* Bounds and program constants                                            *)

\* self.timeout, the VISA read timeout, in ticks
VisaTimeout == 2
\* largest timeout argument, in ticks
MaxTimeout == 6

\* pause_between_loops = 100e-3
PauseBetweenLoops == 4
\* pause_between_set_and_query = 25e-3
PauseBetweenSetAndQuery == 1
\* pause_between_tries = 100e-3 (read)
PauseBetweenTries == 4

Timeouts == {0, MaxTimeout}
Transforms == {"None", "float"}

-----------------------------------------------------------------------------
(* Python values                                                           *)

Str(s) == [t |-> "str", s |-> s, m |-> 0, e |-> 0]
Num(m, e) == [t |-> "num", s |-> <<>>, m |-> m, e |-> e]
ValueErr == [t |-> "err", s |-> <<>>, m |-> 0, e |-> 0]
NoResp == <<"-">>

Whitespace == {"LF", " "}
Digits == {"0", "1", "2"}

RECURSIVE RStrip(_)
RStrip(s) ==
    IF s # <<>> /\ s[Len(s)] \in Whitespace
    THEN RStrip(SubSeq(s, 1, Len(s) - 1))
    ELSE s

DigitVal(c) == CASE c = "0" -> 0 [] c = "1" -> 1 [] c = "2" -> 2

RECURSIVE DigitsValue(_)
DigitsValue(d) ==
    IF d = <<>> THEN 0
    ELSE 10 * DigitsValue(SubSeq(d, 1, Len(d) - 1)) + DigitVal(d[Len(d)])

DotPos(s) ==
    IF \E i \in 1..Len(s) : s[i] = "."
    THEN CHOOSE i \in 1..Len(s) : s[i] = "." /\ \A j \in 1..(i - 1) : s[j] # "."
    ELSE Len(s) + 1

IntPart(s) == SubSeq(s, 1, DotPos(s) - 1)
FracPart(s) == SubSeq(s, DotPos(s) + 1, Len(s))

IsFloatLiteral(s) ==
    /\ \A i \in 1..Len(IntPart(s)) : IntPart(s)[i] \in Digits
    /\ \A i \in 1..Len(FracPart(s)) : FracPart(s)[i] \in Digits
    /\ Len(IntPart(s)) + Len(FracPart(s)) > 0

RECURSIVE Normalize(_, _)
Normalize(m, e) ==
    IF e < 0 /\ m % 10 = 0 THEN Normalize(m \div 10, e + 1) ELSE Num(m, e)

\* float(s) for the literals digits[.digits]; anything else raises ValueError
Float(s) ==
    IF IsFloatLiteral(s)
    THEN Normalize(DigitsValue(IntPart(s) \o FracPart(s)), 0 - Len(FracPart(s)))
    ELSE ValueErr

\* the transform is not applied
ApplyTransformIdentity(f, s) == Str(s)

\* lines 252-253: transform(out), or out itself without a transform
ApplyTransform(f, s) == IF f = "None" THEN Str(s) ELSE Float(s)

\* what self.device.read() can deliver
DevResponses ==
    { <<"1", "LF">>, <<"1", ".", "0", "LF">>, <<"2", "LF">>, <<"LF">>,
      <<"N", "LF">> }

\* the result arguments tried: '1', 1.0, ''
Results == { Str(<<"1">>), Float(<<"1">>), Str(<<>>) }

\* nothing kept: no call before, or not a call of _set_with_check
NoCall ==
    [target |-> FALSE, ret |-> "none", cmdWrites |-> 0, queryWrites |-> 0,
     transform |-> "None", result |-> Str(<<>>), first |-> NoResp,
     is_open |-> FALSE, device |-> "None"]

-----------------------------------------------------------------------------
(* AFG2225: values and arguments                                           *)

\* None
None == [t |-> "none", s |-> <<>>, m |-> 0, e |-> 0]

RECURSIVE Pow10(_)
Pow10(n) == IF n <= 0 THEN 1 ELSE 10 * Pow10(n - 1)

\* a < b for two floats
NumLess(a, b) ==
    LET k == IF a.e < b.e THEN a.e ELSE b.e
    IN  a.m * Pow10(a.e - k) < b.m * Pow10(b.e - k)

\* the parameters of set_wave, in the order of its if statements
SwOrder == <<"wavetype", "frequency", "amplitude", "offset", "symmetry",
             "duty", "phase">>
NumericParams == {"frequency", "amplitude", "offset", "symmetry", "duty",
                  "phase"}

\* inputs[wavetype] of set_wavetype, for the keys tried
WaveResult(w) ==
    IF w = Str(<<"S", "I", "N">>) THEN Str(<<"S", "I", "N">>)
    ELSE Str(<<"S", "Q", "U">>)

\* the values a setter is called with: 0, 1, 2
SetterValues == { Float(<<"0">>), Float(<<"1">>), Float(<<"2">>) }

\* replies of the generator to "...? MIN", to "...? MAX" and to the query
MinReplies == { <<"0", "LF">>, <<"1", "LF">>, <<"LF">> }
MaxReplies == { <<"1", ".", "0", "LF">>, <<"2", "LF">>, <<"LF">> }
ValueReplies ==
    { <<"0", "LF">>, <<"1", ".", "0", "LF">>, <<"2", "LF">>, <<"LF">> }
WaveReplies == { <<"S", "I", "N", "LF">>, <<"S", "Q", "U", "LF">> }

\* the argument lists of set_wave tried: each parameter None or one value
WaveArgs ==
    { [p \in {SwOrder[i] : i \in 1..Len(SwOrder)} |->
          IF p \in on
          THEN (IF p = "wavetype" THEN Str(<<"S", "I", "N">>) ELSE Float(<<"2">>))
          ELSE None] :
      on \in SUBSET {SwOrder[i] : i \in 1..Len(SwOrder)} }

NoArgs == [p \in {SwOrder[i] : i \in 1..Len(SwOrder)} |-> None]

\* the AFG2225 object after __init__ (gwinstek.py line 38): no call yet
AfgInit ==
    /\ afg_param = "none"
    /\ afg_req = None
    /\ afg_value = None
    /\ afg_min = None
    /\ afg_max = None
    /\ in_range = TRUE
    /\ afg_result = None
    /\ afg_cmds = <<>>
    /\ afg_cycles = 0
    /\ afg_out = "none"
    /\ sw_args = NoArgs
    /\ sw_pos = 0
    /\ it_worked = TRUE
    /\ sw_attempted = <<>>
    /\ sw_anyFalse = FALSE

-----------------------------------------------------------------------------
(* Scope: values and replies                                               *)

\* float(s) with an optional sign
SignedFloat(s) ==
    IF s # <<>> /\ s[1] = "-"
    THEN (IF Float(Tail(s)) = ValueErr THEN ValueErr
          ELSE Num(0 - Float(Tail(s)).m, Float(Tail(s)).e))
    ELSE Float(s)

\* a float with at most one decimal place, in tenths
Tenths(v) == v.m * Pow10(v.e + 1)

Abs(x) == IF x < 0 THEN 0 - x ELSE x

\* measurement.upper()
Upper(m) == IF m = "mean" THEN "MEAN" ELSE m

\* self.measure_type = None
NoMeasureType == [ch |-> "None", names |-> {}, out |-> "None"]

\* channels and measurements the user asks for
Channels == {"CH1", "CH2"}
Measurements == {"mean", "MEAN", "MINIMUM"}

\* the replies of the scope to a value query, to SCALE? and to POSITION?
DataReplies ==
    { <<>>, <<"0", "LF">>, <<"2", "LF">>, <<"-", "1", "LF">>,
      <<"2", ",", "0", "LF">>, <<"-", "2", ",", "0", "LF">> }

\* data.split(','): is there a second field, and the first field
HasComma(s) == \E i \in 1..Len(s) : s[i] = ","
BeforeComma(s) ==
    IF HasComma(s)
    THEN SubSeq(s, 1, (CHOOSE i \in 1..Len(s) :
                          s[i] = "," /\ \A j \in 1..(i - 1) : s[j] # ",") - 1)
    ELSE s
ScaleReplies == { <<>>, <<"1", "LF">>, <<"0", ".", "2", "LF">> }
PosReplies == { <<>>, <<"0", "LF">>, <<"1", "LF">>, <<"-", "2", "LF">> }

\* the Scope object after __init__ (tekscope.py lines 75-81): no call yet
ScopeInit ==
    /\ scope_is_open = FALSE
    /\ device_type = "None"
    /\ measure_type = NoMeasureType
    /\ sc_stack = <<>>
    /\ smt_ch = "None"
    /\ smt_meas = "None"
    /\ smt_writes = 0
    /\ smt_recorded = FALSE
    /\ m_cnt = 0
    /\ m_queries = 0
    /\ m_data = <<>>
    /\ m_value = None
    /\ m_gave_up = FALSE
    /\ as_ch = "None"
    /\ is_good = FALSE
    /\ as_cnt = 0
    /\ wfmin = None
    /\ wfmax = None
    /\ scscale = None
    /\ scpos = None
    /\ as_iters = 0
    /\ it_writes = 0

-----------------------------------------------------------------------------
(* OphirCOM: arguments and samples                                         *)

\* the largest num_samples asked for, the largest batch one GetData hands
\* out, the GetData polls followed within one call, and the time between
\* two samples of the meter in ms
MaxSamples == 3
MaxBatch == 3
MaxPolls == 4
SamplePeriod == 600

\* num_samples and time_length as the user gives them (time_length in s)
NumSamples == {None} \cup {Num(n, 0) : n \in 0..MaxSamples}
TimeLengths == {None, Num(1, 0)}

\* the k samples the meter hands out after the first d: their powers are
\* told apart by their number, their timestamps are in ms
BatchPows(d, k) == [i \in 1..k |-> d + i]
BatchTimes(d, k) == [i \in 1..k |-> (d + i) * SamplePeriod]

\* the OphirCOM object after __init__ (ophirpower.py lines 54-65)
OphirInit ==
    /\ USBI_handle = 0
    /\ measurement_running = FALSE
    /\ stream_on = FALSE
    /\ last_stream = "none"
    /\ stream_alt = TRUE
    /\ gd_n = None
    /\ gd_time = None
    /\ pows = <<>>
    /\ times = <<>>
    /\ polls = 0
    /\ dev_n = 0
    /\ ret_pows = <<>>
    /\ ret_times = <<>>

-----------------------------------------------------------------------------
(* DewMaster: replies and arguments                                       *)

\* most lines one read of the DewMaster returns
MaxLines == 2

\* longest log, in intervals
MaxIntervals == 6

\* what read().split('\r\n') gives: lines that _parse_data takes ("data")
\* and lines it refuses with ValueError ("junk"); an empty reply is the
\* one line ''
RawReplies ==
    UNION {[1..n -> {"data", "junk"}] : n \in 1..MaxLines}

\* the lines of a reply that _parse_data parses
Parsed(raw_data) == Cardinality({i \in 1..Len(raw_data) : raw_data[i] = "data"})

\* argument interval: an int, or something int() refuses
Intervals == {Num(0, 0), Num(1, 0), Num(2, 0), Str(<<"x">>)}

\* argument total, in intervals
Totals == {None} \cup {Num(k, 0) : k \in 1..MaxIntervals}

DewInit ==
    /\ out_interval = None
    /\ lg_total = None
    /\ lg_npy = FALSE
    /\ lg_csv = FALSE
    /\ tries = 0
    /\ data = 0
    /\ npy_rows = 0
    /\ csv_rows = 0
    /\ lg_phase = "none"
    /\ lg_t = 0
    /\ empty_run = 0

-----------------------------------------------------------------------------
(* The instrument object after __init__ (visausb.py lines 81-85)            *)

Init ==
    /\ is_open = FALSE
    /\ device = "None"
    /\ pc = "idle"
    /\ op = "none"
    /\ ret = "none"
    /\ exc = "none"
    /\ now = 0
    /\ t0 = 0
    /\ transform = "None"
    /\ result = Str(<<>>)
    /\ timeout = 0
    /\ out = Str(<<>>)
    /\ qn = 1
    /\ cycles = 0
    /\ cmdWrites = 0
    /\ queryWrites = 0
    /\ loopSleeps = 0
    /\ devWrites = 0
    /\ devReads = 0
    /\ cyc = <<>>
    /\ resp = <<>>
    /\ resp1 = NoResp
    /\ allEmpty = TRUE
    /\ matched = FALSE
    /\ timeChecks = 0
    /\ rdTimeouts = 0
    /\ rdReads = 0
    /\ raw = NoResp
    /\ allMatch = TRUE
    /\ devFault = "none"
    /\ lastCheck = 0
    /\ prevCall = NoCall
    /\ okLog = "none"
    /\ devFlushes = 0
    /\ AfgInit
    /\ ScopeInit
    /\ OphirInit
    /\ DewInit

callVars == <<now, t0, transform, result, timeout, out, qn, cycles, cmdWrites,
              queryWrites, loopSleeps, devWrites, devReads, cyc, resp, resp1,
              allEmpty, matched, allMatch, timeChecks, rdVars, devFault,
              lastCheck>>

-----------------------------------------------------------------------------
(* open and close                                                          *)

\* open() whatever is_open is
OpenAlways ==
    /\ pc = "idle"
    /\ op' = "open"
    /\ pc' = "done"
    /\ ret' = "none"
    /\ \/ /\ device' = "handle"
          /\ is_open' = TRUE
          /\ exc' = "none"
       \/ /\ exc' = "IOError"
          /\ UNCHANGED objVars
    /\ UNCHANGED callVars
    /\ UNCHANGED extVars

\* open(): IOError when already open or when open_resource fails
Open ==
    /\ pc = "idle"
    /\ op' = "open"
    /\ pc' = "done"
    /\ ret' = "none"
    /\ IF is_open
       THEN /\ exc' = "IOError"
            /\ UNCHANGED objVars
       ELSE \/ /\ device' = "handle"
               /\ is_open' = TRUE
               /\ exc' = "none"
            \/ /\ exc' = "IOError"
               /\ UNCHANGED objVars
    /\ UNCHANGED callVars
    /\ UNCHANGED extVars

\* close(): IOError when already closed
Close ==
    /\ pc = "idle"
    /\ op' = "close"
    /\ pc' = "done"
    /\ ret' = "none"
    /\ IF ~is_open
       THEN /\ exc' = "IOError"
            /\ UNCHANGED objVars
       ELSE /\ is_open' = FALSE
            /\ exc' = "none"
            /\ UNCHANGED device
    /\ UNCHANGED callVars
    /\ UNCHANGED extVars

\* the caller takes the return value or the exception
Return ==
    /\ pc = "done"
    /\ pc' = "idle"
    /\ op' = "none"
    /\ ret' = "none"
    /\ exc' = "none"
    /\ UNCHANGED <<objVars, callVars>>
    /\ UNCHANGED extVars

-----------------------------------------------------------------------------
(* write and read                                                          *)

\* write(command) without the is_open test
WriteNoOpenCheck(nextPc) ==
    /\ devWrites' = devWrites + 1
    /\ \/ /\ pc' = nextPc
          /\ UNCHANGED <<exc, devFault>>
       \/ /\ devFault' = "write"
          /\ exc' = "ValueError"
          /\ pc' = "done"

\* write(command) letting the VisaIOError of device.write through
WriteNoConvert(nextPc) ==
    IF ~is_open
    THEN /\ exc' = "IOError"
         /\ pc' = "done"
         /\ UNCHANGED <<devWrites, devFault>>
    ELSE /\ devWrites' = devWrites + 1
         /\ \/ /\ pc' = nextPc
               /\ UNCHANGED <<exc, devFault>>
            \/ /\ devFault' = "write"
               /\ exc' = "VisaIOError"
               /\ pc' = "done"

\* write(command): IOError when closed; device.write; VisaIOError -> ValueError
Write(nextPc) ==
    IF ~is_open
    THEN /\ exc' = "IOError"
         /\ pc' = "done"
         /\ UNCHANGED <<devWrites, devFault>>
    ELSE /\ devWrites' = devWrites + 1
         /\ \/ /\ pc' = nextPc
               /\ UNCHANGED <<exc, devFault>>
            \/ /\ devFault' = "write"
               /\ exc' = "ValueError"
               /\ pc' = "done"

\* a third query after an empty second response
AfterQueryAgain(n) == "check_empty"

\* where _set_with_check goes on after its n-th self.query of the cycle
AfterQuery(n) == IF n = 1 THEN "check_empty" ELSE "transform"

\* read() hands s.rstrip() to _set_with_check
ReadReturns(s, t) ==
    /\ out' = Str(RStrip(s))
    /\ now' = t
    /\ resp' = Append(resp, RStrip(s))
    /\ resp1' = IF cycles = 1 /\ qn = 1 THEN RStrip(s) ELSE resp1
    /\ allEmpty' = (allEmpty /\ RStrip(s) = <<>>)
    /\ matched' = (matched \/ ApplyTransform(transform, RStrip(s)) = result)
    /\ allMatch' = (allMatch /\ ApplyTransform(transform, RStrip(s)) = result)
    /\ pc' = AfterQuery(qn)
    /\ UNCHANGED exc

\* read(), first device.read: a reply within the VISA timeout, or VisaIOError
QueryRead ==
    /\ pc = "q_read"
    /\ IF ~is_open
       THEN /\ exc' = "IOError"
            /\ pc' = "done"
            /\ UNCHANGED <<now, out, histVars, devReads, rdVars, devFault>>
       ELSE /\ devReads' = devReads + 1
            /\ rdReads' = rdReads + 1
            /\ \/ /\ \E d \in 0..VisaTimeout, r \in DevResponses :
                        /\ ReadReturns(r, now + d)
                        /\ raw' = r
                  /\ UNCHANGED <<rdTimeouts, devFault>>
               \/ /\ now' = now + VisaTimeout
                  /\ rdTimeouts' = 1
                  /\ raw' = NoResp
                  /\ devFault' = "read"
                  /\ pc' = "q_retry"
                  /\ UNCHANGED <<out, histVars, exc>>
    /\ UNCHANGED <<objVars, op, ret, t0, argVars, qn, cycles, cmdWrites,
                   queryWrites, loopSleeps, devWrites, cyc, timeChecks,
                   lastCheck>>
    /\ UNCHANGED extVars

\* read() letting the second VisaIOError through
QueryReadRetryRaises ==
    /\ pc = "q_retry"
    /\ devReads' = devReads + 1
    /\ rdReads' = rdReads + 1
    /\ \/ /\ \E d \in 0..VisaTimeout, r \in DevResponses :
                /\ ReadReturns(r, now + PauseBetweenTries + d)
                /\ raw' = r
          /\ UNCHANGED <<rdTimeouts, devFault>>
       \/ /\ now' = now + PauseBetweenTries + VisaTimeout
          /\ rdTimeouts' = 2
          /\ raw' = NoResp
          /\ devFault' = "read"
          /\ exc' = "VisaIOError"
          /\ pc' = "done"
          /\ UNCHANGED <<out, histVars>>
    /\ UNCHANGED <<objVars, op, ret, t0, argVars, qn, cycles, cmdWrites,
                   queryWrites, loopSleeps, devWrites, cyc, timeChecks,
                   lastCheck>>
    /\ UNCHANGED extVars

\* read(), after the VisaIOError: sleep, second device.read, '' if it fails too
QueryReadRetry ==
    /\ pc = "q_retry"
    /\ devReads' = devReads + 1
    /\ rdReads' = rdReads + 1
    /\ \/ /\ \E d \in 0..VisaTimeout, r \in DevResponses :
                /\ ReadReturns(r, now + PauseBetweenTries + d)
                /\ raw' = r
          /\ UNCHANGED <<rdTimeouts, devFault>>
       \/ /\ ReadReturns(<<>>, now + PauseBetweenTries + VisaTimeout)
          /\ rdTimeouts' = 2
          /\ raw' = NoResp
          /\ devFault' = "read"
    /\ UNCHANGED <<objVars, op, ret, t0, argVars, qn, cycles, cmdWrites,
                   queryWrites, loopSleeps, devWrites, cyc, timeChecks,
                   lastCheck>>
    /\ UNCHANGED extVars

-----------------------------------------------------------------------------
(* _set_with_check (visausb.py lines 210-260)                              *)

\* lines 238-241: the arguments, set_bool = False, t0 = time()
SetWithCheck ==
    /\ pc = "idle"
    /\ op' = "set_with_check"
    /\ \E f \in Transforms, r \in Results, t \in Timeouts :
          /\ transform' = f
          /\ result' = r
          /\ timeout' = t
    /\ now' = 0
    /\ t0' = now'
    /\ lastCheck' = now'
    /\ out' = Str(<<>>)
    /\ qn' = 1
    /\ cycles' = 0
    /\ cmdWrites' = 0
    /\ queryWrites' = 0
    /\ loopSleeps' = 0
    /\ devWrites' = 0
    /\ devReads' = 0
    /\ cyc' = <<>>
    /\ resp' = <<>>
    /\ resp1' = NoResp
    /\ allEmpty' = TRUE
    /\ matched' = FALSE
    /\ allMatch' = TRUE
    /\ timeChecks' = 0
    /\ rdTimeouts' = 0
    /\ rdReads' = 0
    /\ raw' = NoResp
    /\ devFault' = "none"
    /\ pc' = "loop"
    /\ UNCHANGED <<objVars, ret, exc>>
    /\ UNCHANGED extVars

\* line 242: while not set_bool (set_bool is never assigned again)
LoopTest ==
    /\ pc = "loop"
    /\ cycles' = cycles + 1
    /\ cyc' = <<>>
    /\ resp' = <<>>
    /\ pc' = "write_cmd"
    /\ UNCHANGED <<objVars, op, ret, exc, now, t0, argVars, out, qn, cmdWrites,
                   queryWrites, loopSleeps, devWrites, devReads, resp1,
                   allEmpty, matched, allMatch, timeChecks, rdVars, devFault,
                   lastCheck>>
    /\ UNCHANGED extVars

\* the command is written in the first cycle only
WriteCommandOnce ==
    /\ pc = "write_cmd"
    /\ IF cycles = 1
       THEN /\ cmdWrites' = cmdWrites + 1
            /\ cyc' = Append(cyc, "cmd")
            /\ Write("settle")
       ELSE /\ pc' = "settle"
            /\ UNCHANGED <<cmdWrites, cyc, exc, devWrites, devFault>>
    /\ UNCHANGED <<objVars, op, ret, now, t0, argVars, out, qn, cycles,
                   queryWrites, loopSleeps, devReads, histVars, rdVars,
                   timeChecks, lastCheck>>
    /\ UNCHANGED extVars

\* the connection is closed when the command write fails
WriteCommandClosesOnError ==
    /\ pc = "write_cmd"
    /\ cmdWrites' = cmdWrites + 1
    /\ cyc' = Append(cyc, "cmd")
    /\ Write("settle")
    /\ is_open' = (is_open /\ pc' # "done")
    /\ UNCHANGED <<device, op, ret, now, t0, argVars, out, qn, cycles,
                   queryWrites, loopSleeps, devReads, histVars, rdVars,
                   timeChecks, lastCheck>>
    /\ UNCHANGED extVars

\* line 244: self.write(command)
WriteCommand ==
    /\ pc = "write_cmd"
    /\ cmdWrites' = cmdWrites + 1
    /\ cyc' = Append(cyc, "cmd")
    /\ Write("settle")
    /\ UNCHANGED <<objVars, op, ret, now, t0, argVars, out, qn, cycles,
                   queryWrites, loopSleeps, devReads, histVars, rdVars,
                   timeChecks, lastCheck>>
    /\ UNCHANGED extVars

\* line 245: sleep(pause_between_set_and_query)
Settle ==
    /\ pc = "settle"
    /\ now' = now + PauseBetweenSetAndQuery
    /\ qn' = 1
    /\ pc' = "q_write"
    /\ UNCHANGED <<objVars, op, ret, exc, t0, argVars, out, cntVars, cyc,
                   histVars, rdVars, devFault, timeChecks, lastCheck>>
    /\ UNCHANGED extVars

\* lines 246 and 250, query(): self.write(query)
QueryWrite ==
    /\ pc = "q_write"
    /\ queryWrites' = queryWrites + 1
    /\ cyc' = Append(cyc, "query")
    /\ rdTimeouts' = 0
    /\ rdReads' = 0
    /\ raw' = NoResp
    /\ Write("q_read")
    /\ UNCHANGED <<objVars, op, ret, now, t0, argVars, out, qn, cycles,
                   cmdWrites, loopSleeps, devReads, histVars, timeChecks,
                   lastCheck>>
    /\ UNCHANGED extVars

\* the query is always sent a second time
NotOutAlways(v) == TRUE

\* line 248: not out
NotOut(v) == v = Str(<<>>)

\* lines 248-250: if not out: sleep(pause_between_loops), query again
CheckEmpty ==
    /\ pc = "check_empty"
    /\ IF NotOut(out)
       THEN /\ now' = now + PauseBetweenLoops
            /\ qn' = 2
            /\ pc' = "q_write"
       ELSE /\ pc' = "transform"
            /\ UNCHANGED <<now, qn>>
    /\ UNCHANGED <<objVars, op, ret, exc, t0, argVars, out, cntVars, cyc,
                   histVars, rdVars, devFault, timeChecks, lastCheck>>
    /\ UNCHANGED extVars

\* lines 252-253: out = transform(out); float raises ValueError
Transform ==
    /\ pc = "transform"
    /\ IF ApplyTransform(transform, out.s) = ValueErr
       THEN /\ exc' = "ValueError"
            /\ pc' = "done"
            /\ UNCHANGED out
       ELSE /\ out' = ApplyTransform(transform, out.s)
            /\ pc' = "compare"
            /\ UNCHANGED exc
    /\ UNCHANGED <<objVars, op, ret, now, t0, argVars, qn, cntVars, cyc,
                   histVars, rdVars, devFault, timeChecks, lastCheck>>
    /\ UNCHANGED extVars

\* equality of the kind of value only
ValuesEqualLoose(a, b) == a.t = b.t

\* line 255: out == result
ValuesEqual(a, b) == a = b

\* a timeout test that allows two more inter-loop delays
TimedOutLate(t, start, limit) == t - start > limit + 2 * PauseBetweenLoops

\* line 257: time() - t0 > timeout
TimedOut(t, start, limit) == t - start > limit

\* the timeout is tested before the equality
CompareTimeoutFirst ==
    /\ pc = "compare"
    /\ timeChecks' = timeChecks + 1
    /\ IF TimedOut(now, t0, timeout)
       THEN /\ ret' = "False"
            /\ pc' = "done"
            /\ UNCHANGED <<now, loopSleeps, lastCheck>>
       ELSE IF ValuesEqual(out, result)
       THEN /\ ret' = "True"
            /\ pc' = "done"
            /\ UNCHANGED <<now, loopSleeps, lastCheck>>
       ELSE /\ lastCheck' = now
            /\ now' = now + PauseBetweenLoops
            /\ loopSleeps' = loopSleeps + 1
            /\ pc' = "loop"
            /\ UNCHANGED ret
    /\ UNCHANGED <<objVars, op, exc, t0, argVars, out, qn, cycles, cmdWrites,
                   queryWrites, devWrites, devReads, cyc, histVars, rdVars,
                   devFault>>
    /\ UNCHANGED extVars

\* lines 255-260: return True, return False, or sleep and loop
Compare ==
    /\ pc = "compare"
    /\ IF ValuesEqual(out, result)
       THEN /\ ret' = "True"
            /\ pc' = "done"
            /\ UNCHANGED <<now, loopSleeps, timeChecks, lastCheck>>
       ELSE /\ timeChecks' = timeChecks + 1
            /\ IF TimedOut(now, t0, timeout)
               THEN /\ ret' = "False"
                    /\ pc' = "done"
                    /\ UNCHANGED <<now, loopSleeps, lastCheck>>
               ELSE /\ lastCheck' = now
                    /\ now' = now + PauseBetweenLoops
                    /\ loopSleeps' = loopSleeps + 1
                    /\ pc' = "loop"
                    /\ UNCHANGED ret
    /\ UNCHANGED <<objVars, op, exc, t0, argVars, out, qn, cycles, cmdWrites,
                   queryWrites, devWrites, devReads, cyc, histVars, rdVars,
                   devFault>>
    /\ UNCHANGED extVars

-----------------------------------------------------------------------------

Next ==
    \/ Open
    \/ Close
    \/ Return
    \/ SetWithCheck
    \/ LoopTest
    \/ WriteCommand
    \/ Settle
    \/ QueryWrite
    \/ QueryRead
    \/ QueryReadRetry
    \/ CheckEmpty
    \/ Transform
    \/ Compare

Spec == Init /\ [][Next]_vars

-----------------------------------------------------------------------------
(* Two calls in succession: the caller keeps the outcome of the call before *)

\* the call just ended found the device in the target state at every query
InTarget == allMatch /\ resp1 # NoResp /\ devFault # "write"

\* what is kept of the call that just ended
CallSummary ==
    IF op = "set_with_check" /\ InTarget
    THEN [target |-> TRUE, ret |-> ret, cmdWrites |-> cmdWrites,
          queryWrites |-> queryWrites, transform |-> transform,
          result |-> result, first |-> resp1, is_open |-> is_open,
          device |-> device]
    ELSE NoCall

\* the caller takes the outcome and remembers it for the next call
ReturnRemember ==
    /\ pc = "done"
    /\ pc' = "idle"
    /\ op' = "none"
    /\ ret' = "none"
    /\ exc' = "none"
    /\ prevCall' = CallSummary
    /\ UNCHANGED <<objVars, callVars>>
    /\ UNCHANGED <<logVars, drvVars>>

NextTwice ==
    \/ Open
    \/ Close
    \/ ReturnRemember
    \/ SetWithCheck
    \/ LoopTest
    \/ WriteCommand
    \/ Settle
    \/ QueryWrite
    \/ QueryRead
    \/ QueryReadRetry
    \/ CheckEmpty
    \/ Transform
    \/ Compare

SpecTwice == Init /\ [][NextTwice]_allVars

TypeOK ==
    /\ is_open \in BOOLEAN
    /\ device \in {"None", "handle"}
    /\ pc \in {"idle", "done", "loop", "write_cmd", "settle", "q_write",
               "q_read", "q_retry", "check_empty", "transform", "compare"}
    /\ ret \in {"none", "True", "False"}
    /\ exc \in {"none", "IOError", "ValueError"}
    /\ loopSleeps <= timeChecks
    /\ timeChecks \in 0..(cycles + 1)
    /\ qn \in {1, 2}
    /\ rdTimeouts \in 0..2
    /\ now >= t0

-----------------------------------------------------------------------------
(* flush, write, read and query called by the user, and the caller's log   *)
(* of the opens and closes that succeeded                                  *)

\* the counts and the history of a call start afresh
FreshCall ==
    /\ now' = 0
    /\ t0' = 0
    /\ lastCheck' = 0
    /\ transform' = "None"
    /\ result' = Str(<<>>)
    /\ timeout' = 0
    /\ out' = Str(<<>>)
    /\ qn' = 1
    /\ cycles' = 0
    /\ cmdWrites' = 0
    /\ queryWrites' = 0
    /\ loopSleeps' = 0
    /\ devWrites' = 0
    /\ devReads' = 0
    /\ cyc' = <<>>
    /\ resp' = <<>>
    /\ resp1' = NoResp
    /\ allEmpty' = TRUE
    /\ matched' = FALSE
    /\ allMatch' = TRUE
    /\ timeChecks' = 0
    /\ rdTimeouts' = 0
    /\ rdReads' = 0
    /\ raw' = NoResp
    /\ devFault' = "none"
    /\ devFlushes' = 0

\* the user calls flush(), write(command), read() or query(command)
UserCall ==
    /\ pc = "idle"
    /\ \E o \in {"flush", "write", "read", "query"} :
          /\ op' = o
          /\ pc' = IF o = "query" THEN "u_write" ELSE "u_" \o o
    /\ FreshCall
    /\ UNCHANGED <<objVars, ret, exc>>
    /\ UNCHANGED <<prevCall, okLog, drvVars>>

\* flush() without the is_open test
FlushNoOpenCheck ==
    /\ pc = "u_flush"
    /\ pc' = "done"
    /\ devFlushes' = devFlushes + 2
    /\ UNCHANGED exc
    /\ UNCHANGED <<objVars, op, ret, callVars>>
    /\ UNCHANGED <<prevCall, okLog, drvVars>>

\* flush(): IOError when closed, else both buffers of the device are flushed
Flush ==
    /\ pc = "u_flush"
    /\ pc' = "done"
    /\ IF ~is_open
       THEN /\ exc' = "IOError"
            /\ UNCHANGED devFlushes
       ELSE /\ devFlushes' = devFlushes + 2
            /\ UNCHANGED exc
    /\ UNCHANGED <<objVars, op, ret, callVars>>
    /\ UNCHANGED <<prevCall, okLog, drvVars>>

\* write(command) of the user, or the write of the user's query(command)
UserWrite ==
    /\ pc = "u_write"
    /\ Write(IF op = "query" THEN "u_read" ELSE "done")
    /\ UNCHANGED <<objVars, op, ret, now, t0, argVars, out, qn, cycles,
                   cmdWrites, queryWrites, loopSleeps, devReads, cyc,
                   histVars, timeChecks, rdVars, lastCheck>>
    /\ UNCHANGED extVars

\* read() of the user, or the read of the user's query(command): one
\* device.read, a second after a VisaIOError, '' when that fails as well
UserRead ==
    /\ pc = "u_read"
    /\ pc' = "done"
    /\ IF ~is_open
       THEN /\ exc' = "IOError"
            /\ UNCHANGED <<out, devReads, rdTimeouts, rdReads, raw, devFault>>
       ELSE /\ UNCHANGED exc
            /\ \E n \in 0..2 :
                  /\ rdTimeouts' = n
                  /\ rdReads' = IF n = 0 THEN 1 ELSE 2
                  /\ devReads' = devReads + rdReads'
                  /\ devFault' = IF n = 0 THEN devFault ELSE "read"
                  /\ IF n = 2
                     THEN /\ raw' = NoResp
                          /\ out' = Str(<<>>)
                     ELSE \E r \in DevResponses :
                             /\ raw' = r
                             /\ out' = Str(RStrip(r))
    /\ UNCHANGED <<objVars, op, ret, now, t0, argVars, qn, cycles, cmdWrites,
                   queryWrites, loopSleeps, devWrites, cyc, histVars,
                   timeChecks, lastCheck>>
    /\ UNCHANGED extVars

\* the caller takes the outcome and notes an open or close that succeeded
ReturnLog ==
    /\ pc = "done"
    /\ pc' = "idle"
    /\ op' = "none"
    /\ ret' = "none"
    /\ exc' = "none"
    /\ okLog' = IF op \in {"open", "close"} /\ exc = "none" THEN op ELSE okLog
    /\ devFlushes' = 0
    /\ UNCHANGED <<objVars, callVars>>
    /\ UNCHANGED <<prevCall, drvVars>>

NextCalls ==
    \/ Open
    \/ Close
    \/ ReturnLog
    \/ UserCall
    \/ Flush
    \/ UserWrite
    \/ UserRead
    \/ SetWithCheck
    \/ LoopTest
    \/ WriteCommand
    \/ Settle
    \/ QueryWrite
    \/ QueryRead
    \/ QueryReadRetry
    \/ CheckEmpty
    \/ Transform
    \/ Compare

SpecCalls == Init /\ [][NextCalls]_allVars

-----------------------------------------------------------------------------
(* AFG2225 (gwinstek.py): the numeric setters, set_wavetype and set_wave   *)

\* the verifier cycles followed within one setter call
MaxAfgCycles == 2

\* the other objects and the call state of _set_with_check, left alone
afgFrame == <<objVars, callVars, callerVars, scopeVars, ophirVars, dewVars>>

\* an exception leaves the setter, and set_wave with it
AfgRaise(e) ==
    /\ pc' = "done"
    /\ exc' = e
    /\ UNCHANGED <<op, ret>>

\* a setter is entered with value v for parameter p
AfgEnter(p, v) ==
    /\ afg_param' = p
    /\ afg_req' = v
    /\ afg_value' = v
    /\ afg_min' = None
    /\ afg_max' = None
    /\ in_range' = TRUE
    /\ afg_result' = IF p = "wavetype" THEN WaveResult(v) ELSE None
    /\ afg_cmds' = <<>>
    /\ afg_cycles' = 0
    /\ afg_out' = "none"
    /\ pc' = IF p = "wavetype" THEN "afg_verify" ELSE "afg_min"

\* set_frequency, set_amplitude, set_offset, set_square_duty,
\* set_ramp_symmetry, set_phase called by the user
AfgSet ==
    /\ pc = "idle"
    /\ \E p \in NumericParams, v \in SetterValues : AfgEnter(p, v)
    /\ op' = "setter"
    /\ ret' = "none"
    /\ exc' = "none"
    /\ UNCHANGED waveVars
    /\ UNCHANGED afgFrame

\* min = float(self.query("...? MIN"))
AfgQueryMin ==
    /\ pc = "afg_min"
    /\ IF ~is_open
       THEN /\ AfgRaise("IOError")
            /\ UNCHANGED afg_min
       ELSE \E r \in MinReplies :
               IF Float(RStrip(r)) = ValueErr
               THEN /\ AfgRaise("ValueError")
                    /\ UNCHANGED afg_min
               ELSE /\ afg_min' = Float(RStrip(r))
                    /\ pc' = "afg_max"
                    /\ UNCHANGED <<op, ret, exc>>
    /\ UNCHANGED <<afg_param, afg_req, afg_value, afg_max, in_range,
                   afg_result, afg_cmds, afg_cycles, afg_out>>
    /\ UNCHANGED waveVars
    /\ UNCHANGED afgFrame

\* max = float(self.query("...? MAX"))
AfgQueryMax ==
    /\ pc = "afg_max"
    /\ \E r \in MaxReplies :
          IF Float(RStrip(r)) = ValueErr
          THEN /\ AfgRaise("ValueError")
               /\ UNCHANGED afg_max
          ELSE /\ afg_max' = Float(RStrip(r))
               /\ pc' = "afg_clamp"
               /\ UNCHANGED <<op, ret, exc>>
    /\ UNCHANGED <<afg_param, afg_req, afg_value, afg_min, in_range,
                   afg_result, afg_cmds, afg_cycles, afg_out>>
    /\ UNCHANGED waveVars
    /\ UNCHANGED afgFrame

\* if value > max: value = max / elif value < min: value = min
Clamp(v, lo, hi) ==
    IF NumLess(hi, v) THEN hi
    ELSE IF NumLess(v, lo) THEN lo
    ELSE v

\* in_range = True, set to False in either branch of the clamp
InRange(v, lo, hi) == ~NumLess(hi, v) /\ ~NumLess(v, lo)

\* the clamp, then command and result are made from the clamped value
AfgClamp ==
    /\ pc = "afg_clamp"
    /\ afg_value' = Clamp(afg_value, afg_min, afg_max)
    /\ in_range' = InRange(afg_value, afg_min, afg_max)
    /\ afg_result' = afg_value'
    /\ pc' = "afg_verify"
    /\ UNCHANGED <<op, ret, exc>>
    /\ UNCHANGED <<afg_param, afg_req, afg_min, afg_max, afg_cmds,
                   afg_cycles, afg_out>>
    /\ UNCHANGED waveVars
    /\ UNCHANGED afgFrame

\* one cycle of _set_with_check(command, query, result[, transform=float]):
\* the command is written, the reply transformed and compared, then the
\* timeout is checked
AfgVerifyCycle ==
    /\ pc = "afg_verify"
    /\ IF ~is_open
       THEN /\ AfgRaise("IOError")
            /\ UNCHANGED <<afg_cmds, afg_cycles, afg_out>>
       ELSE /\ afg_cmds' = Append(afg_cmds, afg_value)
            /\ afg_cycles' = afg_cycles + 1
            /\ \E r \in (IF afg_param = "wavetype" THEN WaveReplies
                         ELSE ValueReplies) :
                 LET v == ApplyTransform(IF afg_param = "wavetype"
                                         THEN "None" ELSE "float", RStrip(r))
                 IN  IF v = ValueErr
                     THEN /\ AfgRaise("ValueError")
                          /\ UNCHANGED afg_out
                     ELSE IF v = afg_result
                     THEN /\ afg_out' = "True"
                          /\ pc' = "afg_ret"
                          /\ UNCHANGED <<op, ret, exc>>
                     ELSE \/ /\ afg_out' = "False"
                             /\ pc' = "afg_ret"
                             /\ UNCHANGED <<op, ret, exc>>
                          \/ /\ afg_cycles < MaxAfgCycles - 1
                             /\ UNCHANGED <<pc, afg_out>>
                             /\ UNCHANGED <<op, ret, exc>>
    /\ UNCHANGED <<afg_param, afg_req, afg_value, afg_min, afg_max,
                   in_range, afg_result>>
    /\ UNCHANGED waveVars
    /\ UNCHANGED afgFrame

\* the range flag is dropped from the return value
SetterResultIgnoresRange(inRange, o) == o

\* return in_range and out (set_wavetype: the verifier's outcome, its
\* in_range being True throughout)
SetterResult(inRange, o) == IF inRange /\ o = "True" THEN "True" ELSE "False"

\* only the last setter counts
AccumulateLast(w, o) == o = "True"

\* it_worked = it_worked and out
Accumulate(w, o) == w /\ o = "True"

\* the setter returns, to the user or to set_wave
AfgSetterReturn ==
    /\ pc = "afg_ret"
    /\ LET v == SetterResult(in_range, afg_out)
       IN  IF op = "set_wave"
           THEN /\ it_worked' = Accumulate(it_worked, v)
                /\ sw_anyFalse' = (sw_anyFalse \/ v = "False")
                /\ pc' = "sw_next"
                /\ UNCHANGED ret
           ELSE /\ ret' = v
                /\ pc' = "done"
                /\ UNCHANGED <<it_worked, sw_anyFalse>>
    /\ UNCHANGED <<op, exc>>
    /\ UNCHANGED setterVars
    /\ UNCHANGED <<sw_args, sw_pos, sw_attempted>>
    /\ UNCHANGED afgFrame

\* set_wave(channel, wavetype, frequency, ...): it_worked = True
SetWave ==
    /\ pc = "idle"
    /\ \E a \in WaveArgs : sw_args' = a
    /\ sw_pos' = 0
    /\ it_worked' = TRUE
    /\ sw_attempted' = <<>>
    /\ sw_anyFalse' = FALSE
    /\ op' = "set_wave"
    /\ pc' = "sw_next"
    /\ ret' = "none"
    /\ exc' = "none"
    /\ UNCHANGED setterVars
    /\ UNCHANGED afgFrame

\* if <parameter> is not None: out = self.set_<parameter>(channel, ...)
SwNext ==
    /\ pc = "sw_next"
    /\ sw_pos < Len(SwOrder)
    /\ sw_pos' = sw_pos + 1
    /\ LET p == SwOrder[sw_pos + 1]
       IN  IF sw_args[p] = None
           THEN /\ UNCHANGED <<pc, sw_attempted>>
                /\ UNCHANGED setterVars
           ELSE /\ AfgEnter(p, sw_args[p])
                /\ sw_attempted' = Append(sw_attempted, p)
    /\ UNCHANGED <<op, ret, exc>>
    /\ UNCHANGED <<sw_args, it_worked, sw_anyFalse>>
    /\ UNCHANGED afgFrame

\* return it_worked
SwReturn ==
    /\ pc = "sw_next"
    /\ sw_pos = Len(SwOrder)
    /\ ret' = IF it_worked THEN "True" ELSE "False"
    /\ pc' = "done"
    /\ UNCHANGED <<op, exc>>
    /\ UNCHANGED afgVars
    /\ UNCHANGED afgFrame

\* the caller takes the outcome; the locals of the call are gone
AfgReturn ==
    /\ pc = "done"
    /\ pc' = "idle"
    /\ op' = "none"
    /\ ret' = "none"
    /\ exc' = "none"
    /\ afg_param' = "none"
    /\ afg_req' = None
    /\ afg_value' = None
    /\ afg_min' = None
    /\ afg_max' = None
    /\ in_range' = TRUE
    /\ afg_result' = None
    /\ afg_cmds' = <<>>
    /\ afg_cycles' = 0
    /\ afg_out' = "none"
    /\ sw_args' = NoArgs
    /\ sw_pos' = 0
    /\ it_worked' = TRUE
    /\ sw_attempted' = <<>>
    /\ sw_anyFalse' = FALSE
    /\ UNCHANGED afgFrame

NextAfg ==
    \/ Open
    \/ Close
    \/ AfgReturn
    \/ AfgSet
    \/ AfgQueryMin
    \/ AfgQueryMax
    \/ AfgClamp
    \/ AfgVerifyCycle
    \/ AfgSetterReturn
    \/ SetWave
    \/ SwNext
    \/ SwReturn

SpecAfg == Init /\ [][NextAfg]_allVars

-----------------------------------------------------------------------------
(* Scope (tekscope.py): open, close, set_measure_type, measure,            *)
(* autoscale_y                                                             *)

\* the other objects, left alone by the Scope
scopeFrame == <<objVars, callVars, callerVars, afgVars, ophirVars, dewVars>>

\* an exception leaves every running method of the Scope
ScRaise(e) ==
    /\ pc' = "done"
    /\ exc' = e
    /\ sc_stack' = <<>>
    /\ UNCHANGED <<op, ret>>

\* a method returns to the method that called it, or to the user
ScReturn ==
    /\ IF sc_stack = <<>>
       THEN /\ pc' = "done"
            /\ UNCHANGED sc_stack
       ELSE /\ pc' = Head(sc_stack)
            /\ sc_stack' = Tail(sc_stack)
    /\ UNCHANGED <<op, ret, exc>>

\* Scope.open(): the device type is read off the *IDN? reply, whose split
\* raises IndexError when the reply has no comma
ScopeOpen ==
    /\ pc = "idle"
    /\ op' = "scope_open"
    /\ pc' = "done"
    /\ ret' = "none"
    /\ IF scope_is_open
       THEN /\ exc' = "IOError"
            /\ UNCHANGED <<scope_is_open, device_type>>
       ELSE \/ /\ exc' = "IOError"
               /\ UNCHANGED <<scope_is_open, device_type>>
            \/ /\ scope_is_open' = TRUE
               /\ exc' = "none"
               /\ device_type' \in {"TDS", "DPO"}
            \/ /\ scope_is_open' = TRUE
               /\ exc' = "IndexError"
               /\ UNCHANGED device_type
    /\ UNCHANGED <<measure_type, sc_stack, smtVars, measVars, autoVars>>
    /\ UNCHANGED scopeFrame

\* Scope.close()
ScopeClose ==
    /\ pc = "idle"
    /\ op' = "scope_close"
    /\ pc' = "done"
    /\ ret' = "none"
    /\ IF ~scope_is_open
       THEN /\ exc' = "IOError"
            /\ UNCHANGED scope_is_open
       ELSE /\ scope_is_open' = FALSE
            /\ exc' = "none"
    /\ UNCHANGED <<device_type, measure_type, sc_stack, smtVars, measVars,
                   autoVars>>
    /\ UNCHANGED scopeFrame

\* set_measure_type is entered
SmtEnter(ch, meas) ==
    /\ smt_ch' = ch
    /\ smt_meas' = meas
    /\ smt_writes' = 0
    /\ smt_recorded' = (/\ measure_type # NoMeasureType
                        /\ ch = measure_type.ch
                        /\ Upper(meas) \in measure_type.names)
    /\ pc' = "smt_check"

\* set_measure_type(channel, measurement) called by the user
SetMeasureType ==
    /\ pc = "idle"
    /\ \E ch \in Channels, meas \in Measurements : SmtEnter(ch, meas)
    /\ op' = "set_measure_type"
    /\ ret' = "none"
    /\ exc' = "none"
    /\ UNCHANGED <<scopeObj, sc_stack, measVars, autoVars>>
    /\ UNCHANGED scopeFrame

\* measurement.upper in self.measure_type[1]: the method itself, not its
\* result, is looked up in a list of str, of which it equals none
UpperIn(meas, names) == FALSE

\* lines 281-287: set_flag
SetFlag(mt, ch, meas) ==
    \/ mt = NoMeasureType
    \/ ch # mt.ch
    \/ ~UpperIn(meas, mt.names)

\* if set_flag: ... else: nothing is written
SmtCheck ==
    /\ pc = "smt_check"
    /\ IF SetFlag(measure_type, smt_ch, smt_meas)
       THEN /\ pc' = "smt_source"
            /\ UNCHANGED <<op, ret, exc, sc_stack>>
       ELSE ScReturn
    /\ UNCHANGED <<scopeObj, smtVars, measVars, autoVars>>
    /\ UNCHANGED scopeFrame

\* self.write(...): IOError when closed, ValueError when the device times
\* out, else on to nextPc
ScWrite(nextPc) ==
    IF ~scope_is_open
    THEN ScRaise("IOError")
    ELSE \/ ScRaise("ValueError")
         \/ /\ pc' = nextPc
            /\ UNCHANGED <<op, ret, exc, sc_stack>>

\* self.write('MEASUREMENT:IMMED:SOURCE ' + ch_int)
SmtWriteSource ==
    /\ pc = "smt_source"
    /\ ScWrite("smt_type")
    /\ smt_writes' = smt_writes + 1
    /\ UNCHANGED <<smt_ch, smt_meas, smt_recorded>>
    /\ UNCHANGED <<scopeObj, measVars, autoVars>>
    /\ UNCHANGED scopeFrame

\* self.write('MEASUREMENT:IMMED:TYPE ' + measurement.upper())
SmtWriteType ==
    /\ pc = "smt_type"
    /\ ScWrite("smt_query")
    /\ smt_writes' = smt_writes + 1
    /\ UNCHANGED <<smt_ch, smt_meas, smt_recorded>>
    /\ UNCHANGED <<scopeObj, measVars, autoVars>>
    /\ UNCHANGED scopeFrame

\* lines 298-303: what is recorded after the reply out
Recorded(mt, ch, meas, o) ==
    IF mt = NoMeasureType
    THEN [ch |-> ch, names |-> {Upper(meas)}, out |-> o]
    ELSE IF o = mt.out
    THEN [mt EXCEPT !.names = mt.names \cup {Upper(meas)}]
    ELSE [ch |-> ch, names |-> {Upper(meas)}, out |-> o]

\* out = self.query('MEASUREMENT:IMMED:TYPE?'), then the record is updated:
\* the scope answers with the type set, or not at all
SmtQueryType ==
    /\ pc = "smt_query"
    /\ smt_writes' = smt_writes + 1
    /\ \/ /\ ScRaise("ValueError")
          /\ UNCHANGED measure_type
       \/ /\ \E o \in {Upper(smt_meas), ""} :
                measure_type' = Recorded(measure_type, smt_ch, smt_meas, o)
          /\ ScReturn
    /\ UNCHANGED <<smt_ch, smt_meas, smt_recorded>>
    /\ UNCHANGED <<scope_is_open, device_type, measVars, autoVars>>
    /\ UNCHANGED scopeFrame

\* the tries after which measure gives up: elif cnt > 9
MeasureTries == 9

\* measure is entered and calls set_measure_type; back is where the caller
\* of measure goes on
MeasEnter(ch, meas, back) ==
    /\ m_cnt' = 0
    /\ m_queries' = 0
    /\ m_data' = <<>>
    /\ m_value' = None
    /\ m_gave_up' = FALSE
    /\ SmtEnter(ch, meas)
    /\ sc_stack' = <<"m_query">> \o back \o sc_stack

\* measure(channel, measurement) called by the user
Measure ==
    /\ pc = "idle"
    /\ \E ch \in Channels, meas \in Measurements : MeasEnter(ch, meas, <<>>)
    /\ op' = "measure"
    /\ ret' = "none"
    /\ exc' = "none"
    /\ UNCHANGED <<scopeObj, autoVars>>
    /\ UNCHANGED scopeFrame

\* one pass of the while loop of measure: the value is queried; an empty
\* reply counts a try, and raises once cnt is above MeasureTries
MeasureQuery ==
    /\ pc = "m_query"
    /\ IF ~scope_is_open
       THEN /\ ScRaise("IOError")
            /\ UNCHANGED <<m_cnt, m_queries, m_data, m_gave_up>>
       ELSE /\ m_queries' = m_queries + 1
            /\ \/ /\ ScRaise("ValueError")
                  /\ UNCHANGED <<m_cnt, m_data, m_gave_up>>
               \/ \E r \in DataReplies :
                     IF RStrip(r) # <<>>
                     THEN /\ m_data' = RStrip(r)
                          /\ pc' = "m_parse"
                          /\ UNCHANGED <<op, ret, exc, sc_stack, m_cnt,
                                         m_gave_up>>
                     ELSE IF m_cnt > MeasureTries
                     THEN /\ ScRaise("ValueError")
                          /\ m_gave_up' = TRUE
                          /\ UNCHANGED <<m_cnt, m_data>>
                     ELSE /\ m_cnt' = m_cnt + 1
                          /\ UNCHANGED <<pc, op, ret, exc, sc_stack, m_data,
                                         m_gave_up>>
    /\ UNCHANGED m_value
    /\ UNCHANGED <<scopeObj, smtVars, autoVars>>
    /\ UNCHANGED scopeFrame

\* lines 511-517: value (and error) are parsed out of data
ParseData(dt, d) ==
    IF dt = "TDS"
    THEN (IF HasComma(d) THEN SignedFloat(BeforeComma(d)) ELSE ValueErr)
    ELSE SignedFloat(d)

\* the data is parsed, the unit queried, and measure returns
MeasureParse ==
    /\ pc = "m_parse"
    /\ IF device_type = "TDS" /\ ~HasComma(m_data)
       THEN /\ ScRaise("IndexError")
            /\ UNCHANGED m_value
       ELSE IF ParseData(device_type, m_data) = ValueErr
       THEN /\ ScRaise("ValueError")
            /\ UNCHANGED m_value
       ELSE \/ /\ ScRaise("ValueError")
               /\ UNCHANGED m_value
            \/ /\ m_value' = ParseData(device_type, m_data)
               /\ ScReturn
    /\ UNCHANGED <<m_cnt, m_queries, m_data, m_gave_up>>
    /\ UNCHANGED <<scopeObj, smtVars, autoVars>>
    /\ UNCHANGED scopeFrame

\* the iterations of the while loop of autoscale_y: cnt < 15
MaxIterations == 15

\* the loop goes on until the trace is good
KeepAdjustingForever(good, cnt) == ~good

\* while (not is_good) and cnt < 15
KeepAdjusting(good, cnt) == ~good /\ cnt < MaxIterations

\* autoscale_y(channel): self.write(ch_int + ':POSITION 0')
AutoscaleY ==
    /\ pc = "idle"
    /\ op' = "autoscale_y"
    /\ ret' = "none"
    /\ \E ch \in Channels : as_ch' = ch
    /\ is_good' = FALSE
    /\ as_cnt' = 0
    /\ as_iters' = 0
    /\ it_writes' = 0
    /\ IF ~scope_is_open
       THEN /\ pc' = "done"
            /\ exc' = "IOError"
       ELSE \/ /\ pc' = "done"
               /\ exc' = "ValueError"
            \/ /\ pc' = "as_loop"
               /\ exc' = "none"
    /\ UNCHANGED <<wfmin, wfmax, scscale, scpos>>
    /\ UNCHANGED <<scopeObj, sc_stack, smtVars, measVars>>
    /\ UNCHANGED scopeFrame

\* the loop test; an iteration begins with measure(ch_int, 'MINIMUM')
AsLoopTest ==
    /\ pc = "as_loop"
    /\ IF KeepAdjusting(is_good, as_cnt)
       THEN /\ as_iters' = as_iters + 1
            /\ it_writes' = 0
            /\ MeasEnter(as_ch, "MINIMUM", <<"as_min">>)
            /\ UNCHANGED <<op, ret, exc>>
       ELSE /\ ScReturn
            /\ UNCHANGED <<as_iters, it_writes, smtVars, measVars>>
    /\ UNCHANGED <<as_ch, is_good, as_cnt, wfmin, wfmax, scscale, scpos>>
    /\ UNCHANGED scopeObj
    /\ UNCHANGED scopeFrame

\* wfmin = self.measure(...)[0], then measure(ch_int, 'MAXIMUM')
AsGotMin ==
    /\ pc = "as_min"
    /\ wfmin' = m_value
    /\ MeasEnter(as_ch, "MAXIMUM", <<"as_max">>)
    /\ UNCHANGED <<op, ret, exc>>
    /\ UNCHANGED <<as_ch, is_good, as_cnt, wfmax, scscale, scpos, as_iters,
                   it_writes>>
    /\ UNCHANGED scopeObj
    /\ UNCHANGED scopeFrame

\* the locals of a method that has returned are gone
CalleeGone ==
    /\ smt_ch' = "None"
    /\ smt_meas' = "None"
    /\ smt_writes' = 0
    /\ smt_recorded' = FALSE
    /\ m_cnt' = 0
    /\ m_queries' = 0
    /\ m_data' = <<>>
    /\ m_value' = None
    /\ m_gave_up' = FALSE

\* wfmax = self.measure(...)[0]
AsGotMax ==
    /\ pc = "as_max"
    /\ wfmax' = m_value
    /\ pc' = "as_scale"
    /\ CalleeGone
    /\ UNCHANGED <<op, ret, exc, sc_stack>>
    /\ UNCHANGED <<as_ch, is_good, as_cnt, wfmin, scscale, scpos, as_iters,
                   it_writes>>
    /\ UNCHANGED scopeObj
    /\ UNCHANGED scopeFrame

\* scscale = float(self.query(ch_int + ':SCALE?'))
AsQueryScale ==
    /\ pc = "as_scale"
    /\ \/ /\ ScRaise("ValueError")
          /\ UNCHANGED scscale
       \/ \E r \in ScaleReplies :
             IF SignedFloat(RStrip(r)) = ValueErr
             THEN /\ ScRaise("ValueError")
                  /\ UNCHANGED scscale
             ELSE /\ scscale' = SignedFloat(RStrip(r))
                  /\ pc' = "as_pos"
                  /\ UNCHANGED <<op, ret, exc, sc_stack>>
    /\ UNCHANGED <<as_ch, is_good, as_cnt, wfmin, wfmax, scpos, as_iters,
                   it_writes>>
    /\ UNCHANGED <<scopeObj, smtVars, measVars>>
    /\ UNCHANGED scopeFrame

\* scpos = float(self.query(ch_int + ':POSITION?'))
AsQueryPos ==
    /\ pc = "as_pos"
    /\ \/ /\ ScRaise("ValueError")
          /\ UNCHANGED scpos
       \/ \E r \in PosReplies :
             IF SignedFloat(RStrip(r)) = ValueErr
             THEN /\ ScRaise("ValueError")
                  /\ UNCHANGED scpos
             ELSE /\ scpos' = SignedFloat(RStrip(r))
                  /\ pc' = "as_adjust"
                  /\ UNCHANGED <<op, ret, exc, sc_stack>>
    /\ UNCHANGED <<as_ch, is_good, as_cnt, wfmin, wfmax, scscale, as_iters,
                   it_writes>>
    /\ UNCHANGED <<scopeObj, smtVars, measVars>>
    /\ UNCHANGED scopeFrame

\* lines 331-333 in hundredths, scale and position being in tenths
ScMin(s, p) == (0 - 40 - p) * s
ScMax(s, p) == (40 - p) * s
ScDif(s, p) == ScMax(s, p) - ScMin(s, p)

\* lines 335-349: which branch of the if statement is taken, for the
\* waveform extremes lo, hi, the scale s and the position p, all in tenths
Branch(lo, hi, s, p) ==
    IF 10 * hi > ScMax(s, p) - ScDif(s, p) \div 8 THEN "too_large_top"
    ELSE IF 10 * lo < ScMin(s, p) + ScDif(s, p) \div 8 THEN "too_large_bottom"
    ELSE IF Abs(ScMax(s, p) - 10 * hi - Abs(ScMin(s, p) - 10 * lo))
            > ScDif(s, p) \div 10 THEN "off_centre"
    ELSE IF 10 * hi - 10 * lo < ScDif(s, p) \div 2 THEN "too_small"
    ELSE "good"

\* the if statement of the iteration: one SCALE or POSITION write, or
\* is_good = True; then cnt += 1.  The four readings are taken anew in the
\* next iteration before they are used.
AsAdjust ==
    /\ pc = "as_adjust"
    /\ IF Branch(Tenths(wfmin), Tenths(wfmax), Tenths(scscale), Tenths(scpos))
          = "good"
       THEN /\ is_good' = TRUE
            /\ as_cnt' = as_cnt + 1
            /\ pc' = "as_loop"
            /\ UNCHANGED <<op, ret, exc, sc_stack, it_writes>>
       ELSE /\ it_writes' = it_writes + 1
            /\ \/ /\ ScRaise("ValueError")
                  /\ UNCHANGED <<is_good, as_cnt>>
               \/ /\ as_cnt' = as_cnt + 1
                  /\ pc' = "as_loop"
                  /\ UNCHANGED <<op, ret, exc, sc_stack, is_good>>
    /\ wfmin' = None
    /\ wfmax' = None
    /\ scscale' = None
    /\ scpos' = None
    /\ UNCHANGED <<as_ch, as_iters>>
    /\ UNCHANGED <<scopeObj, smtVars, measVars>>
    /\ UNCHANGED scopeFrame

\* the caller takes the outcome; the locals of the call are gone
ScopeReturn ==
    /\ pc = "done"
    /\ pc' = "idle"
    /\ op' = "none"
    /\ ret' = "none"
    /\ exc' = "none"
    /\ sc_stack' = <<>>
    /\ smt_ch' = "None"
    /\ smt_meas' = "None"
    /\ smt_writes' = 0
    /\ smt_recorded' = FALSE
    /\ m_cnt' = 0
    /\ m_queries' = 0
    /\ m_data' = <<>>
    /\ m_value' = None
    /\ m_gave_up' = FALSE
    /\ as_ch' = "None"
    /\ is_good' = FALSE
    /\ as_cnt' = 0
    /\ wfmin' = None
    /\ wfmax' = None
    /\ scscale' = None
    /\ scpos' = None
    /\ as_iters' = 0
    /\ it_writes' = 0
    /\ UNCHANGED scopeObj
    /\ UNCHANGED scopeFrame

NextScope ==
    \/ ScopeOpen
    \/ ScopeClose
    \/ ScopeReturn
    \/ SetMeasureType
    \/ SmtCheck
    \/ SmtWriteSource
    \/ SmtWriteType
    \/ SmtQueryType
    \/ Measure
    \/ MeasureQuery
    \/ MeasureParse
    \/ AutoscaleY
    \/ AsLoopTest
    \/ AsGotMin
    \/ AsGotMax
    \/ AsQueryScale
    \/ AsQueryPos
    \/ AsAdjust

SpecScope == Init /\ [][NextScope]_allVars

-----------------------------------------------------------------------------
(* OphirCOM (ophirpower.py): connect, disconnect, the data stream and      *)
(* get_data_fixed                                                          *)

\* the other objects, left alone by the OphirCOM
ophirFrame == <<objVars, callVars, callerVars, afgVars, scopeVars,
               dewVars>>

\* connect(): the handle of the opened device is kept
OphirConnect ==
    /\ pc = "idle"
    /\ op' = "connect"
    /\ pc' = "done"
    /\ ret' = "none"
    /\ \/ /\ USBI_handle' = 1
          /\ exc' = "none"
       \/ /\ exc' = "ValueError"
          /\ UNCHANGED USBI_handle
    /\ UNCHANGED <<measurement_running, stream_on, gdVars>>
    /\ UNCHANGED streamLog
    /\ UNCHANGED ophirFrame

\* disconnect()
OphirDisconnect ==
    /\ pc = "idle"
    /\ op' = "disconnect"
    /\ pc' = "done"
    /\ ret' = "none"
    /\ exc' = "none"
    /\ USBI_handle' = 0
    /\ stream_on' = IF USBI_handle = 0 THEN stream_on ELSE FALSE
    /\ UNCHANGED <<measurement_running, gdVars>>
    /\ UNCHANGED streamLog
    /\ UNCHANGED ophirFrame

\* start_data_stream() without the test of measurement_running
StartDataStreamAnyway ==
    /\ pc = "idle"
    /\ op' = "start_data_stream"
    /\ pc' = "done"
    /\ ret' = "none"
    /\ IF USBI_handle = 0
       THEN /\ exc' = "IOError"
            /\ UNCHANGED <<measurement_running, stream_on, dev_n, streamLog>>
       ELSE /\ exc' = "none"
            /\ stream_on' = TRUE
            /\ dev_n' = 0
            /\ last_stream' = "StartStream"
            /\ stream_alt' = (stream_alt /\ last_stream # "StartStream")
            /\ measurement_running' = TRUE
    /\ UNCHANGED <<USBI_handle, gd_n, gd_time, pows, times, polls, ret_pows,
                   ret_times>>
    /\ UNCHANGED ophirFrame

\* start_data_stream()
StartDataStream ==
    /\ pc = "idle"
    /\ op' = "start_data_stream"
    /\ pc' = "done"
    /\ ret' = "none"
    /\ IF USBI_handle = 0 \/ measurement_running
       THEN /\ exc' = "IOError"
            /\ UNCHANGED <<measurement_running, stream_on, dev_n, streamLog>>
       ELSE /\ exc' = "none"
            /\ stream_on' = TRUE
            /\ dev_n' = 0
            /\ last_stream' = "StartStream"
            /\ stream_alt' = (stream_alt /\ last_stream # "StartStream")
            /\ measurement_running' = TRUE
    /\ UNCHANGED <<USBI_handle, gd_n, gd_time, pows, times, polls, ret_pows,
                   ret_times>>
    /\ UNCHANGED ophirFrame

\* stop_data_stream()
StopDataStream ==
    /\ pc = "idle"
    /\ op' = "stop_data_stream"
    /\ pc' = "done"
    /\ ret' = "none"
    /\ IF USBI_handle = 0 \/ ~measurement_running
       THEN /\ exc' = "IOError"
            /\ UNCHANGED <<measurement_running, stream_on, streamLog>>
       ELSE /\ exc' = "none"
            /\ stream_on' = FALSE
            /\ last_stream' = "StopStream"
            /\ stream_alt' = (stream_alt /\ last_stream = "StartStream")
            /\ measurement_running' = FALSE
    /\ UNCHANGED <<USBI_handle, gdVars>>
    /\ UNCHANGED ophirFrame

\* get_data_fixed(num_samples, time_length): lines 312-316
GetDataFixed ==
    /\ pc = "idle"
    /\ op' = "get_data_fixed"
    /\ ret' = "none"
    /\ gd_n' \in NumSamples
    /\ gd_time' \in TimeLengths
    /\ pows' = <<>>
    /\ times' = <<>>
    /\ polls' = 0
    /\ ret_pows' = <<>>
    /\ ret_times' = <<>>
    /\ IF USBI_handle = 0 \/ measurement_running
       THEN /\ exc' = "IOError"
            /\ pc' = "done"
            /\ UNCHANGED measurement_running
       ELSE /\ exc' = "none"
            /\ pc' = "gd_args"
            /\ measurement_running' = TRUE
    /\ UNCHANGED <<USBI_handle, stream_on, dev_n>>
    /\ UNCHANGED streamLog
    /\ UNCHANGED ophirFrame

\* an exception inside the try block: except: measurement_running = False
GdRaise(e) ==
    /\ pc' = "done"
    /\ exc' = e
    /\ measurement_running' = FALSE
    /\ UNCHANGED <<op, ret>>

\* lines 327-333 and 347-349: the arguments decide the branch; with
\* num_samples given the stream is started for the polling loop
GdArgs ==
    /\ pc = "gd_args"
    /\ IF gd_n = None /\ gd_time = None
       THEN /\ GdRaise("ValueError")
            /\ UNCHANGED <<stream_on, dev_n>>
       ELSE /\ pc' = IF gd_n = None THEN "gd_timed" ELSE "gd_loop"
            /\ stream_on' = TRUE
            /\ dev_n' = 0
            /\ UNCHANGED <<op, ret, exc, measurement_running>>
    /\ UNCHANGED <<USBI_handle, gd_n, gd_time, pows, times, polls, ret_pows,
                   ret_times>>
    /\ UNCHANGED streamLog
    /\ UNCHANGED ophirFrame

\* the exception of the COM object when a call of it fails
ComError == "com_error"

\* while len(pows) < num_samples: one GetData poll, whose batch (possibly
\* empty) is appended
GdPoll ==
    /\ pc = "gd_loop"
    /\ Len(pows) < gd_n.m
    /\ polls < MaxPolls
    /\ polls' = polls + 1
    /\ \/ /\ GdRaise(ComError)
          /\ UNCHANGED <<pows, times, dev_n>>
       \/ /\ \E k \in 0..MaxBatch :
                /\ pows' = pows \o BatchPows(dev_n, k)
                /\ times' = times \o BatchTimes(dev_n, k)
                /\ dev_n' = dev_n + k
          /\ UNCHANGED <<pc, op, ret, exc, measurement_running>>
    /\ UNCHANGED <<USBI_handle, stream_on, gd_n, gd_time, ret_pows, ret_times>>
    /\ UNCHANGED streamLog
    /\ UNCHANGED ophirFrame

\* nothing is cut off
TrimNothing(seq, n) == seq

\* lines 356-358: if len(pows) > num_samples: pows[0:i], times[0:i]
Trim(seq, n) == IF Len(seq) > n THEN SubSeq(seq, 1, n) ELSE seq

\* line 370: times = tuple([jj*1e-3 for jj in times])
ToSeconds(ts) == [i \in 1..Len(ts) |-> Normalize(ts[i], 0 - 3)]

\* the loop is left: StopStream, the trim, and the return
GdFinish ==
    /\ pc = "gd_loop"
    /\ ~(Len(pows) < gd_n.m)
    /\ stream_on' = FALSE
    /\ ret_pows' = Trim(pows, gd_n.m)
    /\ ret_times' = ToSeconds(Trim(times, gd_n.m))
    /\ measurement_running' = FALSE
    /\ pc' = "done"
    /\ ret' = "tuple"
    /\ UNCHANGED <<op, exc>>
    /\ UNCHANGED <<USBI_handle, gd_n, gd_time, pows, times, polls, dev_n>>
    /\ UNCHANGED streamLog
    /\ UNCHANGED ophirFrame

\* lines 337-340: the number of samples kept of timestamps ts (in ms) when
\* the record is longer than limit ms
KeptForTime(ts, limit) ==
    IF ts[Len(ts)] - ts[1] > limit
    THEN (CHOOSE i \in 1..Len(ts) :
             /\ ts[i] - ts[1] > limit
             /\ \A j \in 1..(i - 1) : ~(ts[j] - ts[1] > limit)) - 1
    ELSE Len(ts)

\* num_samples is None: the stream runs for time_length, one GetData, and
\* the trim to time_length; times[-1] of an empty record raises IndexError
GdTimed ==
    /\ pc = "gd_timed"
    /\ stream_on' = FALSE
    /\ polls' = polls + 1
    /\ \/ /\ GdRaise(ComError)
          /\ UNCHANGED <<pows, times, dev_n, ret_pows, ret_times>>
       \/ \E k \in 0..MaxBatch :
             /\ pows' = BatchPows(dev_n, k)
             /\ times' = BatchTimes(dev_n, k)
             /\ dev_n' = dev_n + k
             /\ IF k = 0
                THEN /\ GdRaise("IndexError")
                     /\ UNCHANGED <<ret_pows, ret_times>>
                ELSE LET keep == KeptForTime(times',
                                     gd_time.m * Pow10(gd_time.e + 3))
                     IN  /\ ret_pows' = SubSeq(pows', 1, keep)
                         /\ ret_times' = ToSeconds(SubSeq(times', 1, keep))
                         /\ measurement_running' = FALSE
                         /\ pc' = "done"
                         /\ ret' = "tuple"
                         /\ UNCHANGED <<op, exc>>
    /\ UNCHANGED <<USBI_handle, gd_n, gd_time>>
    /\ UNCHANGED streamLog
    /\ UNCHANGED ophirFrame

\* get_data_continuous(): IOError unless connected and running, else what
\* the meter has collected since the last GetData is returned
GetDataContinuous ==
    /\ pc = "idle"
    /\ op' = "get_data_continuous"
    /\ pc' = "done"
    /\ IF USBI_handle = 0 \/ ~measurement_running
       THEN /\ exc' = "IOError"
            /\ ret' = "none"
            /\ UNCHANGED <<dev_n, ret_pows, ret_times>>
       ELSE /\ exc' = "none"
            /\ ret' = "tuple"
            /\ \E k \in 0..MaxBatch :
                  /\ dev_n + k <= MaxSamples + MaxBatch
                  /\ ret_pows' = BatchPows(dev_n, k)
                  /\ ret_times' = ToSeconds(BatchTimes(dev_n, k))
                  /\ dev_n' = dev_n + k
    /\ UNCHANGED <<ophirObj, gd_n, gd_time, pows, times, polls>>
    /\ UNCHANGED ophirFrame

\* the caller takes the outcome; the locals of the call are gone
OphirReturn ==
    /\ pc = "done"
    /\ pc' = "idle"
    /\ op' = "none"
    /\ ret' = "none"
    /\ exc' = "none"
    /\ gd_n' = None
    /\ gd_time' = None
    /\ pows' = <<>>
    /\ times' = <<>>
    /\ polls' = 0
    /\ ret_pows' = <<>>
    /\ ret_times' = <<>>
    /\ UNCHANGED <<ophirObj, dev_n>>
    /\ UNCHANGED ophirFrame

NextOphir ==
    \/ OphirConnect
    \/ OphirDisconnect
    \/ StartDataStream
    \/ StopDataStream
    \/ GetDataContinuous
    \/ OphirReturn
    \/ GetDataFixed
    \/ GdArgs
    \/ GdPoll
    \/ GdFinish
    \/ GdTimed

SpecOphir == Init /\ [][NextOphir]_allVars

-----------------------------------------------------------------------------
(* DewMaster.log_data (edgetech.py)                                       *)

dewFrame == <<objVars, callVars, callerVars, afgVars, scopeVars, ophirVars>>

\* log_data(filename, interval, total, npy, csv): the directory is
\* checked, set_output_interval(interval) checks and sets the interval,
\* then data = [], tries = 0
LogData ==
    /\ pc = "idle"
    /\ op' = "log_data"
    /\ ret' = "none"
    /\ \E dir_exists \in BOOLEAN, interval \in Intervals, total \in Totals,
          npy \in BOOLEAN, csv \in BOOLEAN :
          /\ lg_total' = total
          /\ lg_npy' = npy
          /\ lg_csv' = csv
          /\ IF ~dir_exists
             THEN /\ pc' = "done"
                  /\ exc' = "NotADirectoryError"
                  /\ UNCHANGED <<out_interval, tries, lg_phase>>
             ELSE IF interval.t # "num"
             THEN /\ pc' = "done"
                  /\ exc' = "TypeError"
                  /\ UNCHANGED <<out_interval, tries, lg_phase>>
             ELSE IF NumLess(interval, Num(1, 0))
             THEN /\ pc' = "done"
                  /\ exc' = "ValueError"
                  /\ UNCHANGED <<out_interval, tries, lg_phase>>
             ELSE /\ pc' = "lg_first"
                  /\ exc' = "none"
                  /\ out_interval' = interval
                  /\ tries' = 0
                  /\ lg_phase' = "first"
    /\ UNCHANGED <<data, dewFiles, lg_t, empty_run>>
    /\ UNCHANGED dewFrame

\* one turn of 'while not data': sleep, read, parse; IOError when tries is
\* over 2, else one more try
LogFirst ==
    /\ pc = "lg_first"
    /\ \E raw_data \in RawReplies :
          /\ data' = data + Parsed(raw_data)
          /\ IF tries > 2
             THEN /\ pc' = "done"
                  /\ exc' = "IOError"
                  /\ UNCHANGED tries
             ELSE /\ tries' = tries + 1
                  /\ pc' = IF data' = 0 THEN "lg_first" ELSE "lg_files"
                  /\ UNCHANGED exc
    /\ UNCHANGED <<op, ret, out_interval, dewArgs, dewFiles, lg_phase, lg_t,
                   empty_run>>
    /\ UNCHANGED dewFrame

\* the files are started with the first data, the collection loop begins
LogStartFiles ==
    /\ pc = "lg_files"
    /\ pc' = "lg_loop"
    /\ npy_rows' = IF lg_npy THEN data ELSE npy_rows
    /\ csv_rows' = IF lg_csv THEN data ELSE csv_rows
    /\ lg_phase' = "collect"
    /\ UNCHANGED <<op, ret, exc, out_interval, dewArgs, tries, data, lg_t,
                   empty_run>>
    /\ UNCHANGED dewFrame

\* the test of tries in the else branch of 'if data_n'
GivesUp(t) == t > 3

\* one turn of 'while go_cond': sleep, read, parse; data is appended to
\* the files and tries reset, no data is counted; then go_cond is
\* evaluated again
LogCollect ==
    /\ pc = "lg_loop"
    /\ lg_t < MaxIntervals
    /\ lg_t' = lg_t + 1
    /\ \E raw_data \in RawReplies :
          LET n == Parsed(raw_data)
              over == lg_total # None /\ lg_t' >= lg_total.m
          IN  IF n > 0
              THEN /\ tries' = 0
                   /\ data' = data + n
                   /\ npy_rows' = IF lg_npy THEN data' ELSE npy_rows
                   /\ csv_rows' = IF lg_csv THEN csv_rows + n ELSE csv_rows
                   /\ empty_run' = 0
                   /\ pc' = IF over THEN "done" ELSE "lg_loop"
                   /\ UNCHANGED exc
              ELSE /\ empty_run' = empty_run + 1
                   /\ UNCHANGED <<data, dewFiles>>
                   /\ IF GivesUp(tries)
                      THEN /\ pc' = "done"
                           /\ exc' = "IOError"
                           /\ UNCHANGED tries
                      ELSE /\ tries' = tries + 1
                           /\ pc' = IF over THEN "done" ELSE "lg_loop"
                           /\ UNCHANGED exc
    /\ UNCHANGED <<op, ret, out_interval, dewArgs, lg_phase>>
    /\ UNCHANGED dewFrame

\* the caller takes the outcome; the locals of the call are gone, the
\* files and the setting of the DewMaster stay
DewReturn ==
    /\ pc = "done"
    /\ pc' = "idle"
    /\ op' = "none"
    /\ ret' = "none"
    /\ exc' = "none"
    /\ lg_total' = None
    /\ lg_npy' = FALSE
    /\ lg_csv' = FALSE
    /\ tries' = 0
    /\ data' = 0
    /\ lg_phase' = "none"
    /\ lg_t' = 0
    /\ empty_run' = 0
    /\ UNCHANGED <<out_interval, dewFiles>>
    /\ UNCHANGED dewFrame

NextDew ==
    \/ LogData
    \/ LogFirst
    \/ LogStartFiles
    \/ LogCollect
    \/ DewReturn

SpecDew == Init /\ [][NextDew]_allVars

-----------------------------------------------------------------------------
(* Vocabulary of the properties                                            *)

InCall == op = "set_with_check"
Ended == InCall /\ pc = "done"
Elapsed == now - t0

\* self.write(query) calls of the current cycle
QueriesInCycle == Cardinality({i \in 1..Len(cyc) : cyc[i] = "query"})

\* the first response of the call, transformed, equals result
FirstMatched == resp1 # NoResp /\ ApplyTransform(transform, resp1) = result

\* the longest a read() can take, and the longest a cycle can take
MaxReadTime == 2 * VisaTimeout + PauseBetweenTries
MaxCycleTime ==
    PauseBetweenSetAndQuery + 2 * MaxReadTime + PauseBetweenLoops

-----------------------------------------------------------------------------
(* C1 *)

\* C1 as stated: whenever the first query response after the first command
\* write, transformed, equals result (and no write fails), the call returns
\* True after exactly one cycle: one write of command, one write of query,
\* no inter-loop sleep.
C1_FirstMatchOneCycle ==
    (Ended /\ FirstMatched /\ devFault # "write") =>
        /\ ret = "True"
        /\ cycles = 1
        /\ cmdWrites = 1
        /\ queryWrites = 1
        /\ loopSleeps = 0

\* C1, amended: whenever the first query response after the first command
\* write is not the empty string and, transformed, equals result, the call
\* returns True after exactly one cycle: one write of command, one write of
\* query, no inter-loop sleep and no timeout test.
C1_NonEmptyFirstMatchOneCycle ==
    (InCall /\ FirstMatched /\ resp1 # <<>>
        /\ pc \notin {"check_empty", "transform", "compare"}) =>
        /\ pc = "done"
        /\ ret = "True"
        /\ exc = "none"
        /\ cycles = 1
        /\ cmdWrites = 1
        /\ queryWrites = 1
        /\ cyc = <<"cmd", "query">>
        /\ loopSleeps = 0
        /\ timeChecks = 0

C1_Witness ==
    /\ Ended
    /\ transform = "float"
    /\ resp1 = <<"1", ".", "0">>
    /\ result = Float(<<"1">>)
    /\ ret = "True"
    /\ queryWrites = 1

-----------------------------------------------------------------------------
(* C2 *)

\* C2 as stated: when no response of the call, transformed, equals result
\* (transport open, every transport call returning), the call ends by
\* returning False, with an elapsed time of at least timeout.
C2_NeverMatchedReturnsFalse ==
    (Ended /\ is_open /\ devFault # "write" /\ ~matched) =>
        /\ exc = "none"
        /\ ret = "False"
        /\ Elapsed >= timeout

-----------------------------------------------------------------------------
(* C3 *)

\* C3 as stated: a call that returns False does so at an elapsed time of at
\* most timeout plus one inter-loop delay.
C3_FalseWithinTimeoutPlusPause ==
    (Ended /\ ret = "False") => Elapsed <= timeout + PauseBetweenLoops

\* C3, amended: a call that returns False does so at an elapsed time of at
\* most timeout plus one inter-loop delay plus the duration of one full
\* cycle (settle delay, both reads of each query, re-query delay); the last
\* timeout test that let the loop go on was made within timeout.
C3_FalseWithinTimeoutPlusPauseAndCycle ==
    (Ended /\ ret = "False") =>
        /\ lastCheck - t0 <= timeout
        /\ Elapsed <= timeout + PauseBetweenLoops + MaxCycleTime
        /\ (cycles = 1 => Elapsed <= MaxCycleTime)

C3_Witness ==
    /\ Ended
    /\ ret = "False"
    /\ cycles > 1
    /\ Elapsed = timeout + PauseBetweenLoops + MaxCycleTime

-----------------------------------------------------------------------------
(* C4 *)

\* C4 as stated: with transform = float on an open transport, a call in
\* which every query and re-query was answered by the empty string ends
\* without an exception, returning False after more than timeout.
C4_EmptyRepliesReturnFalse ==
    (Ended /\ is_open /\ transform = "float" /\ devFault # "write"
        /\ allEmpty /\ Len(resp) = 2) =>
        /\ exc = "none"
        /\ ret = "False"
        /\ Elapsed > timeout

-----------------------------------------------------------------------------
(* C5 *)

\* C5: when in one attempt the first response is the empty string and the
\* response to the forced second query, transformed, equals result, the call
\* returns True in that attempt: the command is not written again and the
\* timeout test is not made in that attempt.
C5_EmptyThenMatchReturnsTrue ==
    (InCall /\ Len(resp) = 2 /\ resp[1] = <<>>
        /\ ApplyTransform(transform, resp[2]) = result
        /\ pc \notin {"transform", "compare"}) =>
        /\ pc = "done"
        /\ ret = "True"
        /\ exc = "none"
        /\ cyc = <<"cmd", "query", "query">>
        /\ cmdWrites = cycles
        /\ timeChecks = cycles - 1

C5_Witness ==
    /\ Ended
    /\ ret = "True"
    /\ resp = << <<>>, <<"1", ".", "0">> >>
    /\ transform = "float"
    /\ Elapsed > timeout

-----------------------------------------------------------------------------
(* C6 *)

\* C6: the call returns True only if the last response read in the final
\* cycle, transformed, is exactly equal to result (same kind of value, same
\* value); a response of an earlier cycle never decides it.
C6_TrueOnlyOnExactMatch ==
    (Ended /\ ret = "True") =>
        /\ resp # <<>>
        /\ ApplyTransform(transform, resp[Len(resp)]) = result
        /\ exc = "none"

C6_Witness ==
    /\ Ended
    /\ ret = "True"
    /\ cycles = 2
    /\ resp1 = <<"2">>
    /\ resp = << <<"1">> >>
    /\ transform = "None"

-----------------------------------------------------------------------------
(* C7 *)

\* C7: every cycle writes the command before it queries: the number of
\* command writes equals the number of cycles entered (less the one whose
\* write is about to be made), the writes of a cycle are the command first
\* and then only queries, and no query is written in a cycle without it.
C7_CommandReissuedEveryCycle ==
    InCall =>
        /\ cmdWrites = (IF pc = "write_cmd" THEN cycles - 1 ELSE cycles)
        /\ (cyc # <<>> => cyc[1] = "cmd")
        /\ \A i \in 2..Len(cyc) : cyc[i] = "query"
        /\ (pc \in {"settle", "q_write", "q_read", "q_retry", "check_empty",
                    "transform", "compare"} => cyc # <<>>)

C7_Witness ==
    /\ InCall
    /\ cycles = 3
    /\ cmdWrites = 3
    /\ cyc = <<"cmd", "query", "query">>

-----------------------------------------------------------------------------
(* C8 *)

\* C8: an attempt writes the query at most twice; the second query is
\* written if and only if the first response is the empty string, and
\* after a second response, empty or not, no further query is written.
C8_AtMostTwoQueries ==
    InCall =>
        /\ QueriesInCycle <= 2
        /\ Len(resp) <= 2
        /\ (QueriesInCycle = 2 => (Len(resp) >= 1 /\ resp[1] = <<>>))
        /\ (pc \in {"transform", "compare", "loop", "done"}
              /\ Len(resp) >= 1 /\ resp[1] = <<>>) => QueriesInCycle = 2
        /\ (Len(resp) = 2 => pc \in {"transform", "compare", "loop", "done"})

C8_Witness ==
    /\ InCall
    /\ pc = "loop"
    /\ QueriesInCycle = 2
    /\ resp = << <<>>, <<>> >>

-----------------------------------------------------------------------------
(* C9 *)

\* C9: a call on an instrument that is not open ends with IOError, raised
\* by the first self.write(command), with nothing returned, no time spent
\* and no device-level write or read made.
C9_ClosedRaisesIOError ==
    (InCall /\ ~is_open) =>
        /\ pc \in {"loop", "write_cmd", "done"}
        /\ ret = "none"
        /\ devWrites = 0
        /\ devReads = 0
        /\ queryWrites = 0
        /\ (pc = "done" => exc = "IOError" /\ cmdWrites = 1 /\ cycles = 1
                           /\ now = t0)

C9_Witness ==
    /\ Ended
    /\ ~is_open
    /\ device = "handle"
    /\ exc = "IOError"
    /\ cmdWrites = 1

-----------------------------------------------------------------------------
(* C10 *)

\* C10 as stated: whenever the device raised VisaIOError during a write or
\* a read of the call, the call ends with that VisaIOError reaching the
\* caller.
C10_DeviceErrorReachesCallerUnmodified ==
    (Ended /\ devFault # "none") => exc = "VisaIOError"

\* C10, amended: no failure of a write or read is absorbed into the boolean
\* result, but a VisaIOError of the device never reaches the caller as such:
\* raised by device.write it ends the call at once as the ValueError that
\* write raises in its place; raised by device.read it is retried once inside
\* read and, when the second read fails too, becomes the empty response;
\* only the IOError of a closed transport is propagated as it is.
C10_DeviceErrorConvertedOrAbsorbed ==
    InCall =>
        /\ exc # "VisaIOError"
        /\ (devFault = "write" =>
               pc = "done" /\ exc = "ValueError" /\ ret = "none")
        /\ (exc = "IOError" => ~is_open /\ ret = "none")
        /\ (rdTimeouts = 2 /\ resp # <<>> => resp[Len(resp)] = <<>>)
        /\ (rdTimeouts = 2 /\ pc = "check_empty" => out = Str(<<>>) /\ exc = "none")
        /\ (ret # "none" => exc = "none")

C10_Witness ==
    /\ Ended
    /\ devFault = "write"
    /\ exc = "ValueError"
    /\ queryWrites = 2
    /\ resp = << <<>> >>

-----------------------------------------------------------------------------
(* C11 *)

\* this call follows a call with the same arguments that found the device
\* in the target state, and finds it there again
SecondInTarget ==
    /\ Ended
    /\ InTarget
    /\ prevCall.target
    /\ prevCall.transform = transform
    /\ prevCall.result = result

\* C11 as stated: two calls in succession on a device already in the target
\* state both return True, each with exactly one command write and one
\* query write, and the instrument object is as it was.
C11_TwiceInTargetOneCycleEach ==
    SecondInTarget =>
        /\ ret = "True"
        /\ prevCall.ret = "True"
        /\ cmdWrites = 1
        /\ queryWrites = 1
        /\ prevCall.cmdWrites = 1
        /\ prevCall.queryWrites = 1
        /\ is_open = prevCall.is_open
        /\ device = prevCall.device

\* C11, amended: two calls in succession on a device already in the target
\* state, whose response is not the empty string, both return True, each
\* with exactly one command write and one query write (two command writes
\* in total), and the instrument object is as it was.
C11_TwiceInNonEmptyTargetOneCycleEach ==
    (SecondInTarget /\ resp1 # <<>> /\ prevCall.first # <<>>) =>
        /\ ret = "True"
        /\ prevCall.ret = "True"
        /\ cmdWrites = 1
        /\ queryWrites = 1
        /\ devWrites = 2
        /\ prevCall.cmdWrites = 1
        /\ prevCall.queryWrites = 1
        /\ cmdWrites + prevCall.cmdWrites = 2
        /\ is_open = prevCall.is_open
        /\ device = prevCall.device

C11_Witness ==
    /\ SecondInTarget
    /\ transform = "float"
    /\ resp1 = <<"1">>
    /\ prevCall.first = <<"1", ".", "0">>
    /\ ret = "True"

-----------------------------------------------------------------------------
(* C12 *)

\* the response that decided the attempt
LastResp == resp[Len(resp)]

\* C12: the equality test is made on transform(response): with transform =
\* float a response whose float value equals result returns True although
\* the response string is not result; without a transform the response
\* string itself is compared, and True is returned on nothing else.
C12_TransformedValueCompared ==
    (InCall /\ resp # <<>> /\ pc \in {"loop", "done"}) =>
        /\ (transform = "float" /\ Float(LastResp) = result) =>
              (pc = "done" /\ ret = "True")
        /\ (transform = "None" /\ Str(LastResp) = result
              /\ (LastResp # <<>> \/ Len(resp) = 2)) =>
              (pc = "done" /\ ret = "True")
        /\ (ret = "True" /\ transform = "float") => Float(LastResp) = result
        /\ (ret = "True" /\ transform = "None") => Str(LastResp) = result

C12_Witness ==
    /\ Ended
    /\ ret = "True"
    /\ transform = "float"
    /\ LastResp = <<"1", ".", "0">>
    /\ Str(LastResp) # result
    /\ cycles = 2

-----------------------------------------------------------------------------
(* C13 *)

\* C13: no step of _set_with_check, on its way to True, False or an
\* exception, changes is_open or the device handle: the connection is
\* neither opened nor closed by it.
C13_TransportOnlyBorrowed ==
    [][(InCall /\ pc # "done") => (is_open' = is_open /\ device' = device)]_vars

C13_Witness ==
    /\ Ended
    /\ exc = "ValueError"
    /\ devFault = "write"
    /\ is_open
    /\ device = "handle"
    /\ cycles = 2

-----------------------------------------------------------------------------
(* C14 *)

\* self.read has just returned to _set_with_check
JustRead == InCall /\ pc \in {"check_empty", "transform"}

AllWhitespace(r) == \A i \in 1..Len(r) : r[i] \in Whitespace

\* C14 as stated: read returns the empty string exactly when both of its
\* device reads timed out.
C14_EmptyExactlyWhenBothTimedOut ==
    JustRead => (out = Str(<<>>) <=> rdTimeouts = 2)

\* C14, amended: on an open transport read makes at most two device reads,
\* the second only after the first timed out, and never raises for a read
\* timeout; it returns the empty string when both reads timed out and
\* otherwise only when the reply read is whitespace alone (it returns the
\* reply with its trailing whitespace stripped).
C14_ReadTwiceThenEmpty ==
    /\ [](InCall =>
            /\ rdReads <= 2
            /\ rdTimeouts <= rdReads
            /\ (rdReads = 2 => rdTimeouts >= 1)
            /\ (JustRead =>
                  /\ rdReads >= 1
                  /\ resp # <<>>
                  /\ out = Str(LastResp)
                  /\ (rdTimeouts = 2 => out = Str(<<>>))
                  /\ (out = Str(<<>>) <=>
                        (rdTimeouts = 2 \/ (raw # NoResp /\ AllWhitespace(raw))))
                  /\ (raw # NoResp => out = Str(RStrip(raw)))))
    /\ [][(pc \in {"q_read", "q_retry"} /\ is_open) =>
            (pc' \in {"q_retry", "check_empty", "transform"} /\ exc' = exc)]_vars

C14_Witness ==
    /\ JustRead
    /\ rdReads = 2
    /\ rdTimeouts = 2
    /\ out = Str(<<>>)
    /\ qn = 2

-----------------------------------------------------------------------------
(* C15 *)

\* a numeric setter of the AFG2225 has returned a value to the user
SetterEnded == op = "setter" /\ pc = "done" /\ exc = "none"
AboveMax == NumLess(afg_max, afg_req)
BelowMin == ~AboveMax /\ NumLess(afg_req, afg_min)

\* C15: in set_amplitude, set_frequency, set_offset, set_square_duty,
\* set_ramp_symmetry and set_phase, a requested value above the queried MAX
\* (below the queried MIN) is replaced by MAX (MIN): every command written
\* carries the clamped value, the verifier is given the clamped value as
\* result, and the setter returns False even when the verifier returned
\* True.  A value within the limits is sent as it is and the setter returns
\* exactly what the verifier returned.
C15_ClampedSetterReturnsFalse ==
    (op = "setter" /\ pc \in {"afg_verify", "afg_ret", "done"}
        /\ afg_result # None)
    => /\ AboveMax =>
            /\ \A i \in 1..Len(afg_cmds) : afg_cmds[i] = afg_max
            /\ afg_result = afg_max
            /\ SetterEnded => ret = "False"
       /\ BelowMin =>
            /\ \A i \in 1..Len(afg_cmds) : afg_cmds[i] = afg_min
            /\ afg_result = afg_min
            /\ SetterEnded => ret = "False"
       /\ (~AboveMax /\ ~BelowMin) =>
            /\ \A i \in 1..Len(afg_cmds) : afg_cmds[i] = afg_req
            /\ afg_result = afg_req
            /\ SetterEnded => ret = afg_out

\* a value above MAX was clamped, the generator confirmed MAX, and the
\* setter returned False
C15_Witness ==
    /\ SetterEnded
    /\ AboveMax
    /\ afg_cmds = <<afg_max>>
    /\ afg_out = "True"
    /\ ret = "False"

-----------------------------------------------------------------------------
(* C16 *)

ArgGiven(p) == sw_args[p] # None

\* C16: set_wave writes no command for a parameter left as None, and calls
\* the setters of the parameters given in the order wavetype, frequency,
\* amplitude, offset, symmetry, duty, phase, going on after a setter that
\* returned False; it returns True exactly when every setter it called
\* returned True.
C16_SetWaveAttemptsAllInOrder ==
    op = "set_wave"
    => /\ sw_attempted = SelectSeq(SubSeq(SwOrder, 1, sw_pos), ArgGiven)
       /\ (pc \in {"afg_min", "afg_max", "afg_clamp", "afg_verify", "afg_ret"})
            => (ArgGiven(afg_param) /\ afg_param = SwOrder[sw_pos])
       /\ (pc = "done" /\ exc = "none")
            => /\ sw_pos = Len(SwOrder)
               /\ (ret = "True") <=> ~sw_anyFalse

\* set_wave went on to a verified setter after one that returned False, left
\* a parameter out, and returned False
C16_Witness ==
    /\ op = "set_wave"
    /\ pc = "done"
    /\ exc = "none"
    /\ ret = "False"
    /\ sw_anyFalse
    /\ in_range
    /\ afg_out = "True"
    /\ Len(sw_attempted) >= 2
    /\ \E p \in NumericParams : ~ArgGiven(p)

-----------------------------------------------------------------------------
(* C17 *)

\* C17 as stated: a call of set_measure_type with the channel recorded in
\* measure_type and a measurement recorded there sends no write to the
\* scope.
C17_RecordedTypeWritesNothing ==
    (op = "set_measure_type" /\ smt_recorded) => smt_writes = 0

-----------------------------------------------------------------------------
(* C20 *)

\* C20: autoscale_y begins at most 15 iterations of its while loop; within
\* an iteration it sends at most one SCALE or POSITION write, and none in
\* the iteration that sets is_good; each measure of an iteration ends
\* within MeasureTries + 2 value queries.
C20_AutoscaleBounded ==
    op = "autoscale_y"
    => /\ as_iters <= MaxIterations
       /\ as_cnt <= as_iters
       /\ it_writes <= 1
       /\ is_good => it_writes = 0
       /\ m_queries <= MeasureTries + 2

\* autoscale_y has run all its iterations, the last one having written an
\* adjustment, and returned with the trace still not good
C20_Witness ==
    /\ op = "autoscale_y"
    /\ pc = "done"
    /\ exc = "none"
    /\ as_iters = MaxIterations
    /\ as_cnt = MaxIterations
    /\ it_writes = 1
    /\ ~is_good

-----------------------------------------------------------------------------
(* C18 *)

\* get_data_fixed was called with num_samples = n and has returned
ReturnedSamples ==
    op = "get_data_fixed" /\ pc = "done" /\ exc = "none" /\ gd_n # None

\* C18: get_data_fixed(num_samples=n) returns exactly n powers and n
\* timestamps, the first n the meter handed out, whatever the sizes of the
\* batches of the GetData polls; a time_length given as well changes
\* nothing: the polling loop is run and the record is not cut by time.
C18_ExactlyNSamples ==
    ReturnedSamples
    => /\ Len(ret_pows) = gd_n.m
       /\ Len(ret_times) = gd_n.m
       /\ \A i \in 1..gd_n.m :
             /\ ret_pows[i] = i
             /\ ret_times[i] = Normalize(i * SamplePeriod, 0 - 3)
       /\ polls >= 1 <=> gd_n.m > 0

\* three samples were asked for together with a time_length; the polls
\* brought more than three samples in batches of different sizes, one of
\* them empty, and three were returned
C18_Witness ==
    /\ ReturnedSamples
    /\ gd_time # None
    /\ gd_n.m = MaxSamples
    /\ polls >= 3
    /\ Len(pows) > gd_n.m
    /\ Len(ret_pows) = gd_n.m

-----------------------------------------------------------------------------
(* C19 *)

\* C19 as stated: a get_data_fixed(num_samples=n) to which the meter has
\* delivered no sample has returned or raised before its GetData polls
\* reach the number MaxPolls.
C19_PollsBounded ==
    (op = "get_data_fixed" /\ gd_n # None /\ pows = <<>> /\ polls >= MaxPolls)
    => pc = "done"

-----------------------------------------------------------------------------
(* C21 *)

\* C21 as stated: when measure raises the ValueError of the retry limit,
\* exactly 10 value queries have been sent; and a measure that got its
\* value got it within 10 queries.
C21_RaisesAfterTenQueries ==
    (op = "measure" /\ pc = "done")
    => /\ m_gave_up => m_queries = 10
       /\ (exc = "none") => m_queries <= 10

-----------------------------------------------------------------------------
(* C22 *)

\* open() begun on an open instrument, close() begun on a closed one
OpenOnOpen == pc = "idle" /\ op' = "open" /\ is_open
CloseOnClosed == pc = "idle" /\ op' = "close" /\ ~is_open

\* C22: open() on an instrument that is already open and close() on one
\* that is already closed raise IOError and leave is_open and device as
\* they are; an open() that succeeds follows no successful call or a
\* successful close(), and a close() that succeeds follows a successful
\* open(): the successes alternate, beginning with an open.
C22_OpenCloseAlternate ==
    /\ []((pc = "done" /\ exc = "none" /\ op = "open")
            => okLog \in {"none", "close"})
    /\ []((pc = "done" /\ exc = "none" /\ op = "close") => okLog = "open")
    /\ [][(OpenOnOpen \/ CloseOnClosed)
            => (exc' = "IOError" /\ is_open' = is_open /\ device' = device)]_allVars

\* after a successful open() a second open() has raised IOError and the
\* instrument is still open
C22_Witness ==
    /\ pc = "done"
    /\ op = "open"
    /\ exc = "IOError"
    /\ is_open
    /\ device = "handle"
    /\ okLog = "open"

-----------------------------------------------------------------------------
(* C23 *)

\* C23: start_data_stream raises IOError when a measurement is already
\* running; stop_data_stream and get_data_continuous raise IOError when
\* none is running.  Each of these calls leaves measurement_running as it
\* was and makes no COM stream call, so the StartStream and StopStream
\* calls made through start_data_stream and stop_data_stream strictly
\* alternate, the first one being a StartStream.
StartWhileRunning ==
    pc = "idle" /\ op' = "start_data_stream" /\ measurement_running

NotRunningCall ==
    /\ pc = "idle"
    /\ op' \in {"stop_data_stream", "get_data_continuous"}
    /\ ~measurement_running

-----------------------------------------------------------------------------
(* C24 *)

\* C24: in the collection loop of log_data, IOError is raised exactly when
\* 4 collection intervals in a row have given no parsable data line,
\* whatever number of attempts the first-data loop needed: the call that
\* raised there has seen just 4 such intervals, and a loop that goes on
\* or ends without IOError has seen fewer than 4.
C24_RaisesAfterFourEmpty ==
    lg_phase = "collect"
    => IF pc = "done" /\ exc = "IOError"
       THEN empty_run = 4
       ELSE empty_run < 4

-----------------------------------------------------------------------------
(* C25 *)

\* C25: in every cycle of _set_with_check the equality test comes before
\* the timeout test: a cycle whose transformed response equals result
\* returns True without the time being looked at, even when the elapsed
\* time is already over timeout.  So a call that returns True or False has
\* run at least one whole command/query cycle, and a call with timeout 0
\* can return True.
C25_EqualityBeforeTimeout ==
    /\ [][(pc = "compare" /\ out = result)
            => (pc' = "done" /\ ret' = "True" /\ timeChecks' = timeChecks)]_vars
    /\ []((Ended /\ ret \in {"True", "False"})
            => /\ cycles >= 1
               /\ cmdWrites >= 1
               /\ queryWrites >= 1
               /\ timeChecks = IF ret = "True" THEN cycles - 1 ELSE cycles)

C25_Witness ==
    /\ Ended
    /\ ret = "True"
    /\ timeout = 0
    /\ Elapsed > 0
    /\ cycles = 1
    /\ timeChecks = 0

-----------------------------------------------------------------------------
(* C26 *)

\* the calls that go to the device through an open instrument
DeviceCalls == {"flush", "write", "read", "query", "set_with_check"}

\* a device-level write, read or flush is performed in this step
DeviceTouched ==
    \/ devWrites' > devWrites
    \/ devReads' > devReads
    \/ devFlushes' > devFlushes

\* a call of one of the methods in ms begins on a closed instrument
ClosedCallOf(ms) == pc = "idle" /\ op' \in ms /\ ~is_open

\* the device is touched only while is_open
TouchedOnlyOpen == DeviceTouched => is_open

\* a running call to the device leaves the object as it is
CallKeepsObject == (op \in DeviceCalls /\ pc # "done") => objVars' = objVars

\* a call to the device that ended on a closed instrument raised IOError
\* and has sent, read and flushed nothing
ClosedCallRaised ==
    (op \in DeviceCalls /\ pc = "done" /\ ~is_open)
    => /\ exc = "IOError"
       /\ devWrites = 0
       /\ devReads = 0
       /\ devFlushes = 0

\* a call of one of ms on a closed instrument raises IOError and leaves
\* the object as it is
ClosedRaises(ms) ==
    ClosedCallOf(ms) => (exc' = "IOError" /\ objVars' = objVars)

\* C26 as stated: over any sequence of open, close, flush, write, read,
\* query and _set_with_check calls, a device-level write, read or flush is
\* performed only while is_open is True; while is_open is False each of
\* those calls, open among them, raises IOError and leaves the object
\* state unchanged.
C26_ClosedCallsRaise ==
    /\ [][TouchedOnlyOpen]_allVars
    /\ [][CallKeepsObject]_allVars
    /\ []ClosedCallRaised
    /\ [][ClosedRaises({"open", "close"})]_allVars

\* C26, amended: the same for every call but open, which on a closed
\* instrument is the one call that may succeed and change the object.
C26_ClosedCallsButOpenRaise ==
    /\ [][TouchedOnlyOpen]_allVars
    /\ [][CallKeepsObject]_allVars
    /\ []ClosedCallRaised
    /\ [][ClosedRaises({"close"})]_allVars

C26_Witness ==
    /\ pc = "done"
    /\ op = "query"
    /\ ~is_open
    /\ device = "handle"
    /\ exc = "IOError"
    /\ devWrites = 0
    /\ devReads = 0

====
